---- MODULE Spec2Model ----
(***************************************************************************)
(* A model of ASCI-inator: the main window's animation clock and preview   *)
(* scheduler, the export worker thread, the audio ring buffer, the         *)
(* six-band analyzer's input padding and the grid deformation functions.   *)
(*                                                                         *)
(* Times are integers: the animation clock t counts units of 1/3000 s      *)
(* (base_fps = 30 and speed in percent, so one tick adds speed_percent     *)
(* units); an export timestamp is the pair <<num, den>> of the rational    *)
(* num/den seconds.  Luminance is fixed point with Scale = 1.0.            *)
(***************************************************************************)
EXTENDS Integers, Sequences, FiniteSets, TLC

\* ------------------------------------------------------------ bounds
MaxClock == 100          \* the clock stops being advanced past this many units
MaxFrames == 2           \* largest frame count offered to an export (minimum is 2)
RingCapacity == 3        \* capacity of the ring buffer (the program's holds 2 s of audio)
MaxBlock == 4            \* longest block handed to write
MaxWrites == 3           \* write calls in a run
Win == 4                 \* samples in the analyzer's window (the program's has 1104)
MaxMono == 5             \* longest sample array handed to the analyzer
GridRows == 3            \* rows of a luminance grid
GridCols == 3            \* columns of a luminance grid
LumSteps == 2            \* luminance values tried per quarter of [0,1]
MaxCalls == 19           \* calls of get_edge_data in one run
MaxReuse == 2            \* of which calls that repeat an earlier argument pair
MaxHandled == 3          \* handler runs of the main window in one session
MaxProcess == 3          \* calls of process on one analyzer

\* ------------------------------------------------------------ constants
BaseFps == 30            \* MainWindow.base_fps
FramesMin == 2           \* stepper_frames minimum
None == "None"

Modes == {"waves", "morphing", "audio", "audioreactive_alt", "contourswim"}
\* the names the mode selector emits, and mode_map of on_mode_changed
ModeNames == {"waves", "morph", "audioreactive", "audioreactive_alt", "contourswim"}
SpeedChoices == {50, 100}      \* percent values the speed sliders are moved to
FpsChoices == {15, 30}         \* values typed into the fps stepper
RenderTimes == {20, 40, 60}    \* preview render durations in ms
Formats == {"GIF", "MP4"}
AudioLevels == {0, 1}          \* band energy seen by a render: silent / loud
WallTimes == {0, 1}            \* readings of time.time()

Max(a, b) == IF a >= b THEN a ELSE b
Min(a, b) == IF a <= b THEN a ELSE b

VARIABLES
    \* ---- MainWindow
    t, running, base_gray, mode, animation_speed_percent, stepper_fps,
    stepper_frames, skip_frames, glyph_cache, accurate_frame_count,
    loader, was_running, play_checked,
    \* ---- PostFXManager
    crt_enabled, crt_shake, crt_shake_offset_x, crt_shake_offset_y,
    accurate_preview, use_gpu_preview,
    \* ---- ExportWorker
    wpc, fmt, frames, fps, cancel_flag, i, dt_export, t_now, out,
    written, success, exc, write_failed, file, errors, dones, signal,
    \* ---- observations of the run, kept for the properties
    stamps, g, worker_cache_arg, seen, fxlog,
    \* ---- RingBuffer (audio_input.py)
    buf, write_idx, size, lock, log, wr, rd,
    \* ---- SixBandAnalyzer.process / deformation functions, one call each
    call

mainVars == <<t, running, base_gray, mode, animation_speed_percent, stepper_fps,
              stepper_frames, skip_frames, glyph_cache, accurate_frame_count,
              loader, was_running, play_checked>>
postfxVars == <<crt_enabled, crt_shake, crt_shake_offset_x, crt_shake_offset_y,
                accurate_preview, use_gpu_preview>>
workerVars_but_pc == <<fmt, frames, fps, cancel_flag, i, dt_export, t_now, out,
                      written, success, exc, write_failed, file, errors, dones, signal>>
workerVars == <<wpc, fmt, frames, fps, cancel_flag, i, dt_export, t_now, out,
                written, success, exc, write_failed, file, errors, dones, signal>>
obsVars == <<stamps, g, worker_cache_arg, seen, fxlog>>
ringVars == <<buf, write_idx, size, lock, log, wr, rd>>
appVars == <<mainVars, postfxVars, workerVars, obsVars>>
vars == <<mainVars, postfxVars, workerVars, obsVars, ringVars, call>>

\* ============================================================ MainWindow
\* One glyph bitmap: the cache key's character, with the ramp it came from.
\* A frame looks up a non-empty set of keys of the ramp in effect.
RampChars == {"a"}
FrameKeys == (SUBSET RampChars) \ {{}}

\* render_frame_pil: cache = self.glyph_cache if use_cache else None
CacheArg(use_cache) == IF use_cache THEN "glyph_cache" ELSE None

\* A worker that would render through the preview's cache.
ExportUseCacheOn == TRUE
\* The three render_frame_pil calls of ExportWorker.run all pass use_cache=False.
ExportUseCache == FALSE
\* update_preview passes use_cache=True.
PreviewUseCache == TRUE

\* build_ascii_image_color with a cache: missing keys are rasterized and stored.
CacheAfterRender(cache, arg, keys) == IF arg = None THEN cache ELSE cache \cup keys

\* render_frame_gray: the grid is represented by the arguments its deformation is
\* evaluated at.  tt is the timestamp passed in, lvl the band energy the analyzer
\* reports for the samples captured at that moment, wl the reading of time.time().
NoTime == <<-1, 1>>
RenderFrameGray(m, tt, lvl, wl) ==
    CASE m = "waves" -> [mode |-> m, t |-> tt, level |-> 0, wall |-> -1]
      [] m = "morphing" -> [mode |-> m, t |-> tt, level |-> 0, wall |-> -1]
      [] m = "contourswim" -> [mode |-> m, t |-> tt, level |-> 0, wall |-> -1]
      [] m = "audio" -> [mode |-> m, t |-> tt, level |-> lvl, wall |-> -1]
      [] OTHER ->
           \* audioreactive_alt: `t = time.time()` replaces the argument; every
           \* overlay is gated by a band level above 0.01
           IF lvl = 0 THEN [mode |-> m, t |-> NoTime, level |-> 0, wall |-> -1]
                      ELSE [mode |-> m, t |-> NoTime, level |-> lvl, wall |-> wl]

NoGrid == [mode |-> None, t |-> NoTime, level |-> 0, wall |-> -1]

\* update_preview: skip_frames after a render that took rt milliseconds
SkipAfter(rt, skip) == IF rt > 50 THEN TRUE ELSE IF rt < 30 THEN FALSE ELSE skip

\* update_preview(), called with the image bg and the cache as the handler left them
UpdatePreview(bg, cache, rt, keys) ==
    IF bg = None
    THEN /\ glyph_cache' = cache
         /\ skip_frames' = skip_frames
    ELSE /\ glyph_cache' = CacheAfterRender(cache, CacheArg(PreviewUseCache), keys)
         /\ skip_frames' = SkipAfter(rt, skip_frames)

\* What the post effects did to the last preview frame and to the last exported
\* frame: which tier drew the CRT effect, and the shake offset it drew the frame at
\* with the intensity at that moment; gen is the pair the worker's own update_shake
\* made for the frame it is working on.
NoShake == [shaken |-> FALSE, x |-> 0, y |-> 0, shake |-> 0]
Shaken(ox, oy, shake) == [shaken |-> TRUE, x |-> ox, y |-> oy, shake |-> shake]
\* gpu_before is use_gpu_preview as it was when accurate preview was last turned on
NoFx == [tier |-> "none", preview |-> NoShake, export |-> NoShake, gen |-> NoShake,
         gpu_before |-> TRUE]

\* apply_preview_fx, CRT part: accurate preview goes through apply_export_fx, the
\* fast tier through _apply_crt_preview when use_gpu_preview is set
PreviewTier(en, acc, gpu) ==
    IF ~en THEN "none" ELSE IF acc THEN "accurate" ELSE IF gpu THEN "fast" ELSE "none"
\* _apply_crt_export pastes at the offsets if crt_shake > 0; _apply_crt_preview
\* draws the pixmap at the offsets whatever crt_shake is
PreviewShake(en, shake, ox, oy, acc, gpu) ==
    CASE PreviewTier(en, acc, gpu) = "accurate" -> IF shake > 0 THEN Shaken(ox, oy, shake) ELSE NoShake
      [] PreviewTier(en, acc, gpu) = "fast" -> Shaken(ox, oy, shake)
      [] OTHER -> NoShake
\* update_preview: self.postfx.apply_preview_fx(qimg), if a frame is rendered at all
PreviewFx(bg, en, shake, ox, oy, acc, gpu) ==
    IF bg = None THEN fxlog
    ELSE [fxlog EXCEPT !.tier = PreviewTier(en, acc, gpu),
                    !.preview = PreviewShake(en, shake, ox, oy, acc, gpu)]
\* apply_export_fx: full_quality_export is always True
ExportShake(en, shake, ox, oy) == IF en /\ shake > 0 THEN Shaken(ox, oy, shake) ELSE NoShake

\* PostFXManager.update_shake: crt_shake is kept in tenths, max_offset = int(shake*5)
MaxOffset(shake) == (shake * 5) \div 10
ShakeOffsets(shake) == IF shake > 0 THEN (0 - MaxOffset(shake))..MaxOffset(shake) ELSE {0}

\* A tick that would add the base step whatever the speed.
TickDtFixed(percent) == 100
\* on_tick: dt = (1/base_fps) * (speed_percent/100), in units of 1/(100*base_fps) s
TickDt(percent) == percent

\* on_tick: does this tick call update_preview (count is the new frame count)
TickShowsPreview(accurate, count, shake_on, animating) ==
    IF accurate
    THEN IF shake_on THEN count % 2 = 0
         ELSE animating /\ count % 3 = 0
    ELSE shake_on \/ animating

\* on_tick: the CRT shake is on; the animation is running on a loaded image
ShakeOn == crt_enabled /\ crt_shake > 0
Animating == running /\ base_gray # None
\* a tick that would return early whenever the coin falls that way
DroppedAnyway(drop) == drop
\* on_tick: if self.skip_frames: if random.random() < 0.5: return
Dropped(drop) == Animating /\ skip_frames /\ drop
TickCount == IF accurate_preview THEN (accurate_frame_count + 1) % 6 ELSE accurate_frame_count
\* on_tick: this tick calls update_preview
TickShows(drop) ==
    ~Dropped(drop) /\ TickShowsPreview(accurate_preview, TickCount, ShakeOn, Animating)

Tick(drop, rt, keys, ox, oy) ==
    /\ Animating => t + TickDt(animation_speed_percent) <= MaxClock
    /\ IF ShakeOn
       THEN crt_shake_offset_x' = ox /\ crt_shake_offset_y' = oy
       ELSE UNCHANGED <<crt_shake_offset_x, crt_shake_offset_y>>
    /\ t' = IF Animating THEN t + TickDt(animation_speed_percent) ELSE t
    /\ accurate_frame_count' = IF Dropped(drop) THEN accurate_frame_count ELSE TickCount
    /\ IF TickShows(drop)
       THEN /\ UpdatePreview(base_gray, glyph_cache, rt, keys)
            /\ fxlog' = PreviewFx(base_gray, crt_enabled, crt_shake,
                                  IF ShakeOn THEN ox ELSE crt_shake_offset_x,
                                  IF ShakeOn THEN oy ELSE crt_shake_offset_y,
                                  accurate_preview, use_gpu_preview)
       ELSE UNCHANGED <<glyph_cache, skip_frames, fxlog>>
    /\ UNCHANGED <<running, base_gray, mode, animation_speed_percent, stepper_fps,
                   stepper_frames, loader, was_running, play_checked>>
    /\ UNCHANGED <<crt_enabled, crt_shake, accurate_preview, use_gpu_preview>>
    /\ UNCHANGED <<workerVars, ringVars>>
    /\ UNCHANGED <<stamps, g, worker_cache_arg, seen>>

OnTick ==
    \E drop \in BOOLEAN, rt \in RenderTimes, keys \in FrameKeys,
       ox \in ShakeOffsets(crt_shake), oy \in ShakeOffsets(crt_shake) :
      Tick(drop, rt, keys, ox, oy) /\ UNCHANGED call

\* The same tick with what it did kept in view: whether it returned early, whether
\* it rendered a preview and how long the render took, skip_frames before and after.
TickSeen(drop, rt) ==
    [op |-> "on_tick", animating |-> Animating, accurate |-> accurate_preview,
     dropped |-> Dropped(drop), shown |-> TickShows(drop) /\ base_gray # None,
     rt |-> rt, skip_before |-> skip_frames, skip_after |-> skip_frames']
OnTickSeen ==
    \E drop \in BOOLEAN, rt \in RenderTimes, keys \in FrameKeys,
       ox \in ShakeOffsets(crt_shake), oy \in ShakeOffsets(crt_shake) :
      Tick(drop, rt, keys, ox, oy) /\ call' = TickSeen(drop, rt)

\* No modal dialog is open: the widgets of the main window take input.
UIFree == loader = "closed"

\* a stepper that would store a value as given
StoredAsGiven(value, minimum, maximum) == value
\* NewStepperWidget.setValue
StepperSet(value, minimum, maximum) == Max(minimum, Min(maximum, value))

\* _set_animation_speed: the percent kept, and the fps written back to the stepper
SpeedKept(percent) == Max(1, percent)
\* The two conversions are done in binary floating point: for these arguments the
\* product falls just below the whole number and int() gives one less.
FpsJustBelow == {410, 820}
PercentJustBelow == {69, 123, 138, 153, 246, 261, 276, 291}
FpsFromPercent(percent) ==
    StepperSet((BaseFps * percent) \div 100 - (IF percent \in FpsJustBelow THEN 1 ELSE 0), 1, 300)
\* on_export_fps_changed: percent = int((fps / 30.0) * 100)
PercentFromFps(f) == (f * 100) \div 30 - (IF f \in PercentJustBelow THEN 1 ELSE 0)

OnAnimationSpeedSliderChanged ==
    \E p \in SpeedChoices :
      /\ UIFree
      /\ animation_speed_percent' = SpeedKept(p)
      /\ stepper_fps' = FpsFromPercent(SpeedKept(p))
      /\ UNCHANGED <<t, running, base_gray, mode, stepper_frames, skip_frames,
                     glyph_cache, accurate_frame_count, loader, was_running, play_checked>>
      /\ UNCHANGED <<postfxVars, workerVars, obsVars, ringVars, call>>

\* the export tab's speed slider: setattr(self, 'animation_speed_percent', int(v))
OnExportSpeedSliderChanged ==
    \E p \in SpeedChoices :
      /\ UIFree
      /\ animation_speed_percent' = p
      /\ UNCHANGED <<t, running, base_gray, mode, stepper_fps, stepper_frames, skip_frames,
                     glyph_cache, accurate_frame_count, loader, was_running, play_checked>>
      /\ UNCHANGED <<postfxVars, workerVars, obsVars, ringVars, call>>

OnExportFpsChanged ==
    \E f \in FpsChoices :
      /\ UIFree
      /\ f # stepper_fps
      /\ animation_speed_percent' = SpeedKept(PercentFromFps(f))
      /\ stepper_fps' = FpsFromPercent(SpeedKept(PercentFromFps(f)))
      /\ UNCHANGED <<t, running, base_gray, mode, stepper_frames, skip_frames,
                     glyph_cache, accurate_frame_count, loader, was_running, play_checked>>
      /\ UNCHANGED <<postfxVars, workerVars, obsVars, ringVars, call>>

OnFramesChanged ==
    \E n \in FramesMin..MaxFrames :
      /\ UIFree
      /\ stepper_frames' = n
      /\ UNCHANGED <<t, running, base_gray, mode, animation_speed_percent, stepper_fps,
                     skip_frames, glyph_cache, accurate_frame_count, loader, was_running, play_checked>>
      /\ UNCHANGED <<postfxVars, workerVars, obsVars, ringVars, call>>

\* on_start_stop: _set_running(not self.running)
\* _on_play_toggled(checked): self.running = bool(checked)
OnPlayToggled(checked, is_running) == checked
\* on_start_stop: self._set_running(not self.running)
StartStop(is_running) == ~is_running

\* A click on btn_play_pause: the checkable button changes its checked state and
\* emits toggled (slot _on_play_toggled), then emits clicked (slot on_start_stop).
OnStartStop ==
    /\ UIFree
    /\ play_checked' = ~play_checked
    /\ running' = StartStop(OnPlayToggled(~play_checked, running))
    /\ UNCHANGED <<t, base_gray, mode, animation_speed_percent, stepper_fps, stepper_frames,
                   skip_frames, glyph_cache, accurate_frame_count, loader, was_running>>
    /\ UNCHANGED <<postfxVars, workerVars, obsVars, ringVars, call>>

ModeMap(m) ==
    CASE m = "morph" -> "morphing"
      [] m = "audioreactive" -> "audio"
      [] OTHER -> m

OnModeChanged ==
    \E m \in ModeNames, rt \in RenderTimes, keys \in FrameKeys :
      /\ UIFree
      /\ mode' = ModeMap(m)
      /\ UpdatePreview(base_gray, {}, rt, keys)
      /\ fxlog' = PreviewFx(base_gray, crt_enabled, crt_shake, crt_shake_offset_x, crt_shake_offset_y,
                         accurate_preview, use_gpu_preview)
      /\ UNCHANGED <<t, running, base_gray, animation_speed_percent, stepper_fps,
                     stepper_frames, accurate_frame_count, loader, was_running, play_checked>>
      /\ UNCHANGED <<postfxVars, workerVars, stamps, g, worker_cache_arg, seen, ringVars, call>>

\* on_load with a file chosen: the grid is built, the animation started
OnLoad ==
    \E rt \in RenderTimes, keys \in FrameKeys :
      /\ UIFree
      /\ base_gray' = "grid"
      /\ running' = TRUE
      /\ UpdatePreview("grid", glyph_cache, rt, keys)
      /\ fxlog' = PreviewFx("grid", crt_enabled, crt_shake, crt_shake_offset_x, crt_shake_offset_y,
                         accurate_preview, use_gpu_preview)
      /\ UNCHANGED <<t, mode, animation_speed_percent, stepper_fps, stepper_frames,
                     accurate_frame_count, loader, was_running, play_checked>>
      /\ UNCHANGED <<postfxVars, workerVars, stamps, g, worker_cache_arg, seen, ringVars, call>>

\* on_cols_changed / on_rows_changed: rebuild_base_grid
OnColsChanged ==
    \E rt \in RenderTimes, keys \in FrameKeys :
      /\ UIFree
      /\ UpdatePreview(base_gray, glyph_cache, rt, keys)
      /\ fxlog' = PreviewFx(base_gray, crt_enabled, crt_shake, crt_shake_offset_x, crt_shake_offset_y,
                         accurate_preview, use_gpu_preview)
      /\ UNCHANGED <<t, running, base_gray, mode, animation_speed_percent, stepper_fps,
                     stepper_frames, accurate_frame_count, loader, was_running, play_checked>>
      /\ UNCHANGED <<postfxVars, workerVars, stamps, g, worker_cache_arg, seen, ringVars, call>>

\* on_crt_enabled_changed
OnCrtEnabledChanged ==
    \E state \in BOOLEAN, rt \in RenderTimes, keys \in FrameKeys :
      /\ UIFree
      /\ state # crt_enabled
      /\ crt_enabled' = state
      /\ UpdatePreview(base_gray, glyph_cache, rt, keys)
      /\ UNCHANGED <<t, running, base_gray, mode, animation_speed_percent, stepper_fps,
                     stepper_frames, accurate_frame_count, loader, was_running, play_checked>>
      /\ fxlog' = PreviewFx(base_gray, state, crt_shake, crt_shake_offset_x, crt_shake_offset_y,
                         accurate_preview, use_gpu_preview)
      /\ UNCHANGED <<crt_shake, crt_shake_offset_x, crt_shake_offset_y, accurate_preview,
                     use_gpu_preview>>
      /\ UNCHANGED <<workerVars, stamps, g, worker_cache_arg, seen, ringVars, call>>

\* slider_crt_shake: setattr(self.postfx, 'crt_shake', v), v in tenths
ShakeChoices == {0, 1}
ShakeLevels == {0, 2}
CrtShakeChanged(v) ==
    /\ UIFree
    /\ v # crt_shake
    /\ crt_shake' = v
    /\ UNCHANGED <<crt_enabled, crt_shake_offset_x, crt_shake_offset_y, accurate_preview,
                   use_gpu_preview>>
    /\ UNCHANGED <<mainVars, workerVars, obsVars, ringVars, call>>
OnCrtShakeChanged == \E v \in ShakeChoices : CrtShakeChanged(v)
\* the same slider over intensities that move the frame: int(0.2 * 5) = 1
OnShakeSlider == \E v \in ShakeLevels : CrtShakeChanged(v)

\* on_accurate_preview_changed, the value use_gpu_preview is left with: turning
\* accurate preview on clears it, turning it off only re-enables the checkbox
GpuAfterAccurate(state, gpu) == IF state THEN FALSE ELSE gpu

\* on_accurate_preview_changed(state): the flag, the fast tier's flag and checkbox,
\* then update_preview()
OnAccuratePreviewChanged ==
    \E state \in BOOLEAN, rt \in RenderTimes, keys \in FrameKeys :
      /\ UIFree
      /\ state # accurate_preview
      /\ accurate_preview' = state
      /\ use_gpu_preview' = GpuAfterAccurate(state, use_gpu_preview)
      /\ UpdatePreview(base_gray, glyph_cache, rt, keys)
      /\ fxlog' = [PreviewFx(base_gray, crt_enabled, crt_shake, crt_shake_offset_x,
                             crt_shake_offset_y, state, use_gpu_preview')
                     EXCEPT !.gpu_before = IF state THEN use_gpu_preview ELSE @]
      /\ UNCHANGED <<t, running, base_gray, mode, animation_speed_percent, stepper_fps,
                     stepper_frames, accurate_frame_count, loader, was_running, play_checked>>
      /\ UNCHANGED <<crt_enabled, crt_shake, crt_shake_offset_x, crt_shake_offset_y>>
      /\ UNCHANGED <<workerVars, stamps, g, worker_cache_arg, seen, ringVars, call>>

\* cb_gpu_preview.stateChanged: the checkbox is disabled while accurate preview is on
OnGpuPreviewChanged ==
    \E s \in BOOLEAN, rt \in RenderTimes, keys \in FrameKeys :
      /\ UIFree
      /\ ~accurate_preview
      /\ s # use_gpu_preview
      /\ use_gpu_preview' = s
      /\ UpdatePreview(base_gray, glyph_cache, rt, keys)
      /\ fxlog' = PreviewFx(base_gray, crt_enabled, crt_shake, crt_shake_offset_x,
                            crt_shake_offset_y, accurate_preview, s)
      /\ UNCHANGED <<t, running, base_gray, mode, animation_speed_percent, stepper_fps,
                     stepper_frames, accurate_frame_count, loader, was_running, play_checked>>
      /\ UNCHANGED <<crt_enabled, crt_shake, crt_shake_offset_x, crt_shake_offset_y,
                     accurate_preview>>
      /\ UNCHANGED <<workerVars, stamps, g, worker_cache_arg, seen, ringVars, call>>

\* on_export with a path chosen: the animation is stopped, the worker created and
\* started, the modal progress dialog opened.  The path is a new one.
OnExport ==
    \E f \in Formats :
      /\ UIFree
      /\ base_gray # None
      /\ was_running' = running
      /\ running' = FALSE
      /\ loader' = "open"
      /\ wpc' = "start"
      /\ fmt' = f
      /\ frames' = stepper_frames
      /\ fps' = stepper_fps
      /\ cancel_flag' = FALSE
      /\ i' = 0 /\ out' = 0 /\ written' = 0
      /\ dt_export' = <<0, 1>> /\ t_now' = <<0, 1>>
      /\ success' = FALSE /\ exc' = FALSE /\ write_failed' = FALSE
      /\ file' = "absent"
      /\ errors' = 0 /\ dones' = 0 /\ signal' = "none"
      /\ stamps' = <<>>
      /\ g' = NoGrid
      /\ worker_cache_arg' = "unset"
      /\ fxlog' = [fxlog EXCEPT !.export = NoShake, !.gen = NoShake]
      /\ UNCHANGED <<t, base_gray, mode, animation_speed_percent, stepper_fps, stepper_frames,
                     skip_frames, glyph_cache, accurate_frame_count>>
      /\ UNCHANGED <<play_checked, postfxVars, seen, ringVars, call>>

\* LoaderDialog's cancel button: cancel_requested -> ExportWorker.cancel
Cancel ==
    /\ loader = "open"
    /\ ~cancel_flag
    /\ cancel_flag' = TRUE
    /\ UNCHANGED <<wpc, fmt, frames, fps, i, dt_export, t_now, out, written, success, exc,
                   write_failed, file, errors, dones, signal>>
    /\ UNCHANGED <<mainVars, postfxVars, obsVars, ringVars, call>>

\* No worker: the fields of a finished worker, and the path it wrote, are no longer
\* looked at once its signal has been handled.
WorkerDropped ==
    /\ wpc' = "idle" /\ fmt' = "GIF" /\ frames' = FramesMin /\ fps' = BaseFps
    /\ cancel_flag' = FALSE /\ i' = 0 /\ dt_export' = <<0, 1>> /\ t_now' = <<0, 1>>
    /\ out' = 0 /\ written' = 0 /\ success' = FALSE /\ exc' = FALSE
    /\ write_failed' = FALSE /\ file' = "absent" /\ errors' = 0 /\ dones' = 0
    /\ stamps' = <<>> /\ g' = NoGrid /\ worker_cache_arg' = "unset"
    /\ fxlog' = [fxlog EXCEPT !.export = NoShake, !.gen = NoShake]

\* on_done / on_error, the slots of the worker's signals, run on the main thread
OnDone ==
    /\ signal = "done"
    /\ signal' = "none"
    /\ loader' = "closed"
    /\ running' = was_running
    /\ WorkerDropped
    /\ UNCHANGED <<t, base_gray, mode, animation_speed_percent, stepper_fps, stepper_frames,
                   skip_frames, glyph_cache, accurate_frame_count, was_running, play_checked>>
    /\ UNCHANGED <<postfxVars, seen, ringVars, call>>

OnError ==
    /\ signal = "error"
    /\ signal' = "none"
    /\ loader' = "closed"
    /\ running' = was_running
    /\ WorkerDropped
    /\ UNCHANGED <<t, base_gray, mode, animation_speed_percent, stepper_fps, stepper_frames,
                   skip_frames, glyph_cache, accurate_frame_count, was_running, play_checked>>
    /\ UNCHANGED <<postfxVars, seen, ringVars, call>>

\* ============================================================ ExportWorker.run
\* dt_export = (1.0 / max(1, fps)) * max(0.0, speed_percent / 100.0), as <<num, den>>
DtExport(percent, f) == <<Max(0, percent), 100 * Max(1, f)>>

\* A worker that would stamp frame k with the end of its interval.
ExportTimestampOffByOne(k, dt) == <<(k + 1) * dt[1], dt[2]>>
\* t_now = start_t + i * dt_export, with start_t = 0.0
ExportTimestamp(k, dt) == <<k * dt[1], dt[2]>>

W_Begin ==
    /\ wpc = "start"
    /\ dt_export' = DtExport(animation_speed_percent, fps)
    /\ wpc' = "loop"
    /\ UNCHANGED <<fmt, frames, fps, cancel_flag, i, t_now, out, written, success, exc,
                   write_failed, file, errors, dones, signal>>
    /\ UNCHANGED <<mainVars, postfxVars, obsVars, ringVars, call>>

\* for i in range(self.frames): if self._cancel: return
W_LoopHead ==
    /\ wpc = "loop"
    /\ IF i < frames
       THEN IF cancel_flag
            THEN /\ wpc' = "finished"
                 /\ UNCHANGED <<t_now, stamps>>
            ELSE /\ wpc' = "shake"
                 /\ t_now' = ExportTimestamp(i, dt_export)
                 /\ stamps' = Append(stamps, ExportTimestamp(i, dt_export))
       ELSE /\ wpc' = "save"
            /\ UNCHANGED <<t_now, stamps>>
    /\ UNCHANGED <<fmt, frames, fps, cancel_flag, i, dt_export, out, written, success, exc,
                   write_failed, file, errors, dones, signal>>
    /\ UNCHANGED <<mainVars, postfxVars, g, worker_cache_arg, seen, fxlog, ringVars, call>>

W_Shake ==
    \E ox \in ShakeOffsets(crt_shake), oy \in ShakeOffsets(crt_shake) :
      /\ wpc = "shake"
      /\ wpc' = "render"
      /\ IF crt_enabled /\ crt_shake > 0
         THEN /\ crt_shake_offset_x' = ox /\ crt_shake_offset_y' = oy
              /\ fxlog' = [fxlog EXCEPT !.gen = Shaken(ox, oy, crt_shake)]
         ELSE /\ UNCHANGED <<crt_shake_offset_x, crt_shake_offset_y>>
              /\ fxlog' = [fxlog EXCEPT !.gen = NoShake]
      /\ UNCHANGED <<crt_enabled, crt_shake, accurate_preview, use_gpu_preview>>
      /\ UNCHANGED <<workerVars_but_pc, mainVars, stamps, g, worker_cache_arg, seen, ringVars, call>>

\* im = self.main.render_frame_pil(t_now, ..., use_cache=False, for_preview=False)
W_Render ==
    \E lvl \in AudioLevels, wl \in WallTimes, keys \in FrameKeys :
      /\ wpc = "render"
      /\ wpc' = "fx"
      /\ g' = RenderFrameGray(mode, t_now, lvl, wl)
      /\ worker_cache_arg' = CacheArg(ExportUseCache)
      /\ glyph_cache' = CacheAfterRender(glyph_cache, CacheArg(ExportUseCache), keys)
      /\ UNCHANGED <<t, running, base_gray, mode, animation_speed_percent, stepper_fps,
                     stepper_frames, skip_frames, accurate_frame_count, loader, was_running, play_checked>>
      /\ UNCHANGED <<workerVars_but_pc, postfxVars, stamps, seen, fxlog, ringVars, call>>

\* apply_export_fx, out.append, progress.emit
W_Fx ==
    /\ wpc = "fx"
    /\ wpc' = "loop"
    /\ out' = out + 1
    /\ i' = i + 1
    /\ fxlog' = [fxlog EXCEPT !.export = ExportShake(crt_enabled, crt_shake, crt_shake_offset_x,
                                               crt_shake_offset_y)]
    /\ UNCHANGED <<fmt, frames, fps, cancel_flag, dt_export, t_now, written, success, exc,
                   write_failed, file, errors, dones, signal>>
    /\ UNCHANGED <<mainVars, postfxVars, stamps, g, worker_cache_arg, seen, ringVars, call>>

\* The state of the output path after writer.close() / writer.release(): a file
\* holding fewer frames than the run rendered is a truncated, playable file.
FileAfterClose(f, n_written, n_out) ==
    IF f = "absent" THEN "absent"
    ELSE IF n_written = n_out THEN "complete" ELSE "partial"

\* GIF: iio.imwrite(self.fn, out, ...) either writes the whole file or raises,
\* leaving nothing or a part of the file.
W_SaveGif ==
    \E outcome \in {"complete", "absent", "partial"} :
      /\ wpc = "save"
      /\ fmt = "GIF"
      /\ file' = outcome
      /\ write_failed' = (outcome # "complete")
      /\ wpc' = IF outcome = "complete" THEN "emit_done" ELSE "raise"
      /\ UNCHANGED <<fmt, frames, fps, cancel_flag, i, dt_export, t_now, out, written, success,
                     exc, errors, dones, signal>>
      /\ UNCHANGED <<mainVars, postfxVars, obsVars, ringVars, call>>

\* MP4, method 1: import imageio; writer = imageio.get_writer(self.fn, ...).
\* When it raises, writer is None and nothing exists at the path, so the finally
\* block does nothing and the except clause records last_error.
W_M1Open ==
    \E ok \in BOOLEAN :
      /\ wpc = "save"
      /\ fmt = "MP4"
      /\ written' = 0
      /\ wpc' = IF ok THEN "m1_loop" ELSE "m2_open"
      /\ UNCHANGED <<fmt, frames, fps, cancel_flag, i, dt_export, t_now, out, success, exc,
                     write_failed, file, errors, dones, signal>>
      /\ UNCHANGED <<mainVars, postfxVars, obsVars, ringVars, call>>

\* for idx, fr in enumerate(out): if self._cancel: break; writer.append_data(fr)
\* and, after the loop (left normally or by break), success = True
W_M1Loop ==
    \E ok \in BOOLEAN :
      /\ wpc = "m1_loop"
      /\ IF written < out /\ ~cancel_flag
         THEN IF ok
              THEN /\ written' = written + 1
                   /\ file' = "partial"
                   /\ UNCHANGED <<wpc, success, exc>>
              ELSE /\ exc' = TRUE
                   /\ wpc' = "m1_close"
                   /\ UNCHANGED <<written, file, success>>
         ELSE /\ success' = TRUE
              /\ wpc' = "m1_close"
              /\ UNCHANGED <<written, file, exc>>
      /\ UNCHANGED <<fmt, frames, fps, cancel_flag, i, dt_export, t_now, out, write_failed,
                     errors, dones, signal>>
      /\ UNCHANGED <<mainVars, postfxVars, obsVars, ringVars, call>>

\* finally: writer.close()
W_M1Close ==
    /\ wpc = "m1_close"
    /\ file' = FileAfterClose(file, written, out)
    /\ wpc' = "m1_after"
    /\ UNCHANGED <<fmt, frames, fps, cancel_flag, i, dt_export, t_now, out, written, success,
                   exc, write_failed, errors, dones, signal>>
    /\ UNCHANGED <<mainVars, postfxVars, obsVars, ringVars, call>>

\* finally: if self._cancel and os.path.exists(self.fn): os.remove(self.fn); return
\* otherwise a pending exception reaches `except`, and method 2 follows if not success
M1Removes(cancelled, f) == cancelled /\ f # "absent"

W_M1After ==
    /\ wpc = "m1_after"
    /\ IF M1Removes(cancel_flag, file)
       THEN /\ file' = "absent"
            /\ wpc' = "finished"
            /\ exc' = FALSE
       ELSE /\ file' = file
            /\ exc' = FALSE
            /\ wpc' = IF success THEN "emit_done" ELSE "m2_open"
    /\ UNCHANGED <<fmt, frames, fps, cancel_flag, i, dt_export, t_now, out, written, success,
                   write_failed, errors, dones, signal>>
    /\ UNCHANGED <<mainVars, postfxVars, obsVars, ringVars, call>>

\* MP4, method 2: import cv2 (ImportError), cv2.VideoWriter(self.fn, ...) and
\* isOpened(); an opened writer has created the file.
W_M2Open ==
    \E outcome \in {"import_error", "not_opened", "opened"} :
      /\ wpc = "m2_open"
      /\ IF outcome = "opened"
         THEN /\ file' = "partial"
              /\ written' = 0
              /\ wpc' = "m2_loop"
              /\ UNCHANGED write_failed
         ELSE /\ write_failed' = TRUE
              /\ wpc' = "raise"
              /\ UNCHANGED <<file, written>>
      /\ UNCHANGED <<fmt, frames, fps, cancel_flag, i, dt_export, t_now, out, success, exc,
                     errors, dones, signal>>
      /\ UNCHANGED <<mainVars, postfxVars, obsVars, ringVars, call>>

\* for fr in out: if self._cancel: break; writer.write(cvtColor(fr))
W_M2Loop ==
    \E ok \in BOOLEAN :
      /\ wpc = "m2_loop"
      /\ IF written < out /\ ~cancel_flag
         THEN IF ok
              THEN /\ written' = written + 1
                   /\ UNCHANGED <<wpc, write_failed>>
              ELSE /\ write_failed' = TRUE
                   /\ wpc' = "raise"
                   /\ UNCHANGED written
         ELSE /\ wpc' = "m2_release"
              /\ UNCHANGED <<written, write_failed>>
      /\ UNCHANGED <<fmt, frames, fps, cancel_flag, i, dt_export, t_now, out, success, exc,
                     file, errors, dones, signal>>
      /\ UNCHANGED <<mainVars, postfxVars, obsVars, ringVars, call>>

\* writer.release(); success = True
W_M2Release ==
    /\ wpc = "m2_release"
    /\ file' = FileAfterClose(file, written, out)
    /\ success' = TRUE
    /\ wpc' = "emit_done"
    /\ UNCHANGED <<fmt, frames, fps, cancel_flag, i, dt_export, t_now, out, written, exc,
                   write_failed, errors, dones, signal>>
    /\ UNCHANGED <<mainVars, postfxVars, obsVars, ringVars, call>>

\* raise Exception(...) -> except Exception as e: self.error.emit(error_text)
W_Raise ==
    /\ wpc = "raise"
    /\ errors' = errors + 1
    /\ signal' = "error"
    /\ wpc' = "finished"
    /\ UNCHANGED <<fmt, frames, fps, cancel_flag, i, dt_export, t_now, out, written, success,
                   exc, write_failed, file, dones>>
    /\ UNCHANGED <<mainVars, postfxVars, obsVars, ringVars, call>>

\* self.done.emit(self.fn)
W_EmitDone ==
    /\ wpc = "emit_done"
    /\ dones' = dones + 1
    /\ signal' = "done"
    /\ wpc' = "finished"
    /\ UNCHANGED <<fmt, frames, fps, cancel_flag, i, dt_export, t_now, out, written, success,
                   exc, write_failed, file, errors>>
    /\ UNCHANGED <<mainVars, postfxVars, obsVars, ringVars, call>>

WorkerStep ==
    \/ W_Begin \/ W_LoopHead \/ W_Shake \/ W_Render \/ W_Fx
    \/ W_SaveGif \/ W_M1Open \/ W_M1Loop \/ W_M1Close \/ W_M1After
    \/ W_M2Open \/ W_M2Loop \/ W_M2Release \/ W_Raise \/ W_EmitDone


\* ============================================================ RingBuffer
\* Samples are numbered in the order the audio callback delivers them; 0 is the
\* zero the buffer is filled with.  log holds the blocks handed to write so far.
RECURSIVE Flat(_)
Flat(blocks) ==
    IF blocks = <<>> THEN <<>>
    ELSE Flat(SubSeq(blocks, 1, Len(blocks) - 1)) \o blocks[Len(blocks)]

\* the samples of the first k blocks
Written(k) == Flat(SubSeq(log, 1, k))

\* self.lock is free to be taken
LockIgnored == TRUE
LockFree == lock = "free"

\* data[-self.capacity:] when len(data) >= self.capacity
Truncate(data) ==
    IF Len(data) >= RingCapacity
    THEN SubSeq(data, Len(data) - RingCapacity + 1, Len(data))
    ELSE data

\* b[from : from + len(vals)] = vals, from counted from 0
Assign(b, from, vals) ==
    [k \in 1..Len(b) |-> IF k > from /\ k <= from + Len(vals) THEN vals[k - from] ELSE b[k]]

WriterIdle == [pc |-> "idle", data |-> <<>>, n |-> 0, end |-> 0, done |-> 0]

\* the audio callback: self.buffer.write(mono)
Wr_Call ==
    \E len \in 0..MaxBlock :
      /\ wr.pc = "idle"
      /\ Len(log) < MaxWrites
      /\ LET total == Len(Written(Len(log)))
             data == [k \in 1..len |-> total + k]
         IN /\ log' = Append(log, data)
            /\ wr' = [wr EXCEPT !.pc = "acquire", !.data = data]
      /\ UNCHANGED <<buf, write_idx, size, lock, rd, appVars, call>>

\* with self.lock:
Wr_Acquire ==
    /\ wr.pc = "acquire"
    /\ LockFree
    /\ lock' = "writer"
    /\ wr' = [wr EXCEPT !.pc = "truncate"]
    /\ UNCHANGED <<buf, write_idx, size, log, rd, appVars, call>>

\* n = len(data); if n >= capacity: data = data[-capacity:]; end = (write_idx + n) % capacity
Wr_Truncate ==
    /\ wr.pc = "truncate"
    /\ wr' = [wr EXCEPT !.pc = "copy", !.data = Truncate(wr.data),
                        !.n = Len(Truncate(wr.data)),
                        !.end = (write_idx + Len(Truncate(wr.data))) % RingCapacity]
    /\ UNCHANGED <<buf, write_idx, size, lock, log, rd, appVars, call>>

\* buf[write_idx : write_idx + n] = data, or the first of the two slice assignments
Wr_Copy ==
    /\ wr.pc = "copy"
    /\ IF write_idx + wr.n <= RingCapacity
       THEN /\ buf' = Assign(buf, write_idx, wr.data)
            /\ wr' = [wr EXCEPT !.pc = "set_idx"]
       ELSE /\ buf' = Assign(buf, write_idx, SubSeq(wr.data, 1, RingCapacity - write_idx))
            /\ wr' = [wr EXCEPT !.pc = "copy2"]
    /\ UNCHANGED <<write_idx, size, lock, log, rd, appVars, call>>

\* buf[:end] = data[first:]
Wr_Copy2 ==
    /\ wr.pc = "copy2"
    /\ buf' = Assign(buf, 0, SubSeq(wr.data, RingCapacity - write_idx + 1, wr.n))
    /\ wr' = [wr EXCEPT !.pc = "set_idx"]
    /\ UNCHANGED <<write_idx, size, lock, log, rd, appVars, call>>

\* self.write_idx = end
Wr_SetIdx ==
    /\ wr.pc = "set_idx"
    /\ write_idx' = wr.end
    /\ wr' = [wr EXCEPT !.pc = "set_size"]
    /\ UNCHANGED <<buf, size, lock, log, rd, appVars, call>>

\* self.size = min(self.capacity, self.size + n)
Wr_SetSize ==
    /\ wr.pc = "set_size"
    /\ size' = Min(RingCapacity, size + wr.n)
    /\ wr' = [wr EXCEPT !.pc = "release"]
    /\ UNCHANGED <<buf, write_idx, lock, log, rd, appVars, call>>

\* leaving the with block; write returns
Wr_Release ==
    /\ wr.pc = "release"
    /\ lock' = "free"
    /\ wr' = [WriterIdle EXCEPT !.done = Len(log)]
    /\ UNCHANGED <<buf, write_idx, size, log, rd, appVars, call>>

\* start = (self.write_idx - n) % self.capacity
ReadStartNoWrap(w, n) == Max(0, w - n)
ReadStart(w, n) == (w - n) % RingCapacity

\* the slice, or the concatenation of the two slices, of read_latest
Slices(b, start, n) ==
    IF start + n <= RingCapacity
    THEN SubSeq(b, start + 1, start + n)
    ELSE SubSeq(b, start + 1, RingCapacity) \o SubSeq(b, 1, n - (RingCapacity - start))

\* read_latest(n) on a buffer in state (b, w, sz): the samples it returns
ReadLatest(b, w, sz, n) == Slices(b, ReadStart(w, Min(n, sz)), Min(n, sz))

\* An array returned to the caller: a copy holds its own data, a view is a window
\* onto buf.
ViewOf(b, start, n) == [view |-> TRUE, start |-> start, n |-> n, data |-> <<>>]
CopyOf(b, start, n) == [view |-> FALSE, start |-> start, n |-> n, data |-> Slices(b, start, n)]
NoArray == [view |-> FALSE, start |-> 0, n |-> 0, data |-> <<>>]
\* what the caller finds in the array now
ArrayValue(a) == IF a.view THEN Slices(buf, a.start, a.n) ELSE a.data

ReaderIdle == [pc |-> "idle", req |-> 0, lo |-> 0, hi |-> 0, res |-> NoArray]

\* the render thread: self._audio_input.get_latest(n) -> read_latest(n)
Rd_Call ==
    \E n \in 0..(RingCapacity + 1) :
      /\ rd.pc = "idle"
      /\ rd' = [ReaderIdle EXCEPT !.pc = "acquire", !.req = n, !.lo = wr.done]
      /\ UNCHANGED <<buf, write_idx, size, lock, log, wr, appVars, call>>

\* with self.lock:
Rd_Acquire ==
    /\ rd.pc = "acquire"
    /\ LockFree
    /\ lock' = "reader"
    /\ rd' = [rd EXCEPT !.pc = "read"]
    /\ UNCHANGED <<buf, write_idx, size, log, wr, appVars, call>>

\* n = min(n, self.size); start = ...; the value of the return expression
Rd_Read ==
    /\ rd.pc = "read"
    /\ rd' = [rd EXCEPT !.pc = "release",
                        !.res = CopyOf(buf, ReadStart(write_idx, Min(rd.req, size)),
                                       Min(rd.req, size))]
    /\ UNCHANGED <<buf, write_idx, size, lock, log, wr, appVars, call>>

\* leaving the with block; read_latest returns
Rd_Release ==
    /\ rd.pc = "release"
    /\ lock' = "free"
    /\ rd' = [rd EXCEPT !.pc = "done", !.hi = Len(log)]
    /\ UNCHANGED <<buf, write_idx, size, log, wr, appVars, call>>

\* the caller is done with the array
Rd_Drop ==
    /\ rd.pc = "done"
    /\ rd' = ReaderIdle
    /\ UNCHANGED <<buf, write_idx, size, lock, log, wr, appVars, call>>


\* ============================================================ SixBandAnalyzer
\* __init__: self.win = int(sr * window_ms / 1000), made even
AnalyzerWin == IF Win % 2 = 1 THEN Win + 1 ELSE Win

SampleValues == {0, 1}
RECURSIVE Arrays(_)
Arrays(n) ==
    IF n = 0 THEN {<<>>}
    ELSE {Append(a, v) : a \in Arrays(n - 1), v \in SampleValues}
MonoInputs == UNION {Arrays(n) : n \in 0..MaxMono}

Zeros(n) == [k \in 1..n |-> 0]
AllZero(a) == \A k \in 1..Len(a) : a[k] = 0

\* The first index (from 0) of the slice a[start:] of an array of length len:
\* a negative start counts from the end, and -0 is 0.
SliceFrom(len, start) ==
    IF start < 0 THEN Max(0, len + start) ELSE Min(start, len)

\* numpy accepts `a[from:] = vals` when vals has the slice's length or length 1
Broadcasts(vals_len, slice_len) == vals_len = slice_len \/ vals_len = 1

\* a[from:] = vals, for vals that broadcast
AssignTail(a, from, vals) ==
    [k \in 1..Len(a) |->
        IF k <= from THEN a[k]
        ELSE IF Len(vals) = 1 THEN vals[1] ELSE vals[k - from]]

\* process, lines 34-38: the buffer analysed, or the exception of the assignment
PadOrTail(mono) ==
    IF Len(mono) < AnalyzerWin
    THEN LET from == SliceFrom(AnalyzerWin, 0 - Len(mono))
         IN IF Broadcasts(Len(mono), AnalyzerWin - from)
            THEN [raised |-> FALSE, buf |-> AssignTail(Zeros(AnalyzerWin), from, mono)]
            ELSE [raised |-> TRUE, buf |-> Zeros(AnalyzerWin)]
    ELSE [raised |-> FALSE,
          buf |-> SubSeq(mono, Len(mono) - AnalyzerWin + 1, Len(mono))]

AnalyzerCall(mono) ==
    [op |-> "process", pc |-> "called", mono |-> mono, buf |-> <<>>,
     raised |-> FALSE, bands |-> <<>>]

\* render_frame_gray, audio mode: bands = self._audio_an.process(samples), first part
A_Pad ==
    /\ call.op = "process" /\ call.pc = "called"
    /\ call' = [call EXCEPT !.pc = IF PadOrTail(call.mono).raised THEN "raised" ELSE "fft",
                            !.raised = PadOrTail(call.mono).raised,
                            !.buf = PadOrTail(call.mono).buf]
    /\ UNCHANGED <<appVars, ringVars>>

\* process, lines 39-53, on a new analyzer: window, rfft, band means, baseline,
\* knee, noise gate, smoothing.  A buffer of zeros has a zero spectrum and gives six
\* zeros; any other buffer gives six values that are zero (gated) or positive.
A_Bands ==
    \E e \in {0, 1} :
      /\ call.op = "process" /\ call.pc = "fft"
      /\ AllZero(call.buf) => e = 0
      /\ call' = [call EXCEPT !.pc = "returned", !.bands = [k \in 1..6 |-> e]]
      /\ UNCHANGED <<appVars, ringVars>>

\* render_frame_gray, audio mode: except Exception: bands = [self.audio_level] * 6
A_Fallback ==
    \E level \in {0, 1} :
      /\ call.op = "process" /\ call.pc = "raised"
      /\ call' = [call EXCEPT !.pc = "fallback", !.bands = [k \in 1..6 |-> level]]
      /\ UNCHANGED <<appVars, ringVars>>


\* ============================================================ deformation functions
\* Luminance, parameters and times are fixed point: Scale is 1.0.  A phase is
\* kept in eighths of a turn.
Scale == 100
Mul(a, b) == (a * b) \div Scale

\* a grid value that is left as computed
Unclamped(x) == x
\* waves.clamp01: np.clip(x, 0.0, 1.0)
Clamp01(x) == Max(0, Min(Scale, x))
\* np.clip(x, 0.0, 1.0) called directly (morph.py, contourswim.py)
NpClip(x) == Max(0, Min(Scale, x))

\* math.sin / np.sin at a phase of p eighths of a turn
SinTable == <<0, 71, 100, 71, 0, -71, -100, -71>>
Sin(p) == SinTable[(p % 8) + 1]
\* 2 * math.pi * v, v in turns
Turns(v) == (8 * v) \div Scale
\* a phase of r radians: 1 rad = 4/pi eighths of a turn
Radians(r) == (r * 400) \div (314 * Scale)

Cells == (1..GridRows) \X (1..GridCols)
GridValues == {0, Scale \div 2, Scale}
\* the grids the functions are tried on: centre c, its column a, its row b
GridOf(c, a, b) ==
    [cell \in Cells |->
        IF cell = <<2, 2>> THEN c
        ELSE IF cell[2] = 2 THEN a
        ELSE IF cell[1] = 2 THEN b
        ELSE 0]
Grids == {GridOf(c, a, b) : c \in GridValues, a \in GridValues, b \in GridValues}

\* WaveParams(freq_x, freq_y, speed_x, speed_y, amplitude, contrast)
WaveParams(fx, fy, sx, sy, amp, con) ==
    [freq_x |-> fx, freq_y |-> fy, speed_x |-> sx, speed_y |-> sy,
     amplitude |-> amp, contrast |-> con]

\* apply_waves_time, one element: row and col count from 0
WaveCell(b, row, col, tt, p) ==
    LET x == (col * Scale) \div Max(1, GridCols)
        y == (row * Scale) \div Max(1, GridRows)
        A == Scale - b
        phase_x == Turns(Mul(p.freq_x, x) + 10) + Radians(Mul(tt, p.speed_x))
        phase_y == Turns(Mul(p.freq_y, y) + 30) + Radians(Mul(tt, p.speed_y))
        phase_xy == Turns(Mul(35, x + y)) + Radians(Mul(tt, 70))
        W == Mul(Sin(phase_x), A) + Mul(Sin(phase_y), Scale - A \div 2)
             + Mul(Mul(60, Sin(phase_xy)),
                   50 + Mul(50, Mul(Sin(phase_x), Sin(phase_y))))
        moved == b + Mul(p.amplitude, W)
    IN IF p.contrast # Scale
       THEN Clamp01(Clamp01(Mul(moved - 50, p.contrast) + 50))
       ELSE Clamp01(moved)

apply_waves_time(base, tt, params) ==
    [cell \in Cells |-> WaveCell(base[cell], cell[1] - 1, cell[2] - 1, tt, params)]

\* a morph target: None, or an array with its shape
GridShape == <<GridRows, GridCols>>
NoTarget == [given |-> FALSE, shape |-> <<0, 0>>, data |-> GridOf(0, 0, 0)]
TargetOf(shape, data) == [given |-> TRUE, shape |-> shape, data |-> data]

\* a morph that would blend with whatever target it is given
render_morph_unchecked(base, target_gray, tt, params) ==
    IF ~target_gray.given
    THEN apply_waves_time(base, tt, params)
    ELSE [cell \in Cells |->
            NpClip(Mul(Scale - (50 + Mul(50, Sin(Radians(Mul(tt, 80))))), base[cell])
                   + Mul(50 + Mul(50, Sin(Radians(Mul(tt, 80)))), target_gray.data[cell]))]

render_morph(base, target_gray, tt, params) ==
    IF ~target_gray.given \/ target_gray.shape # GridShape
    THEN apply_waves_time(base, tt, params)
    ELSE LET f == 50 + Mul(50, Sin(Radians(Mul(tt, 80))))
         IN [cell \in Cells |->
                NpClip(Mul(Scale - f, base[cell]) + Mul(f, target_gray.data[cell]))]

RECURSIVE SeqSum(_)
SeqSum(q) == IF q = <<>> THEN 0 ELSE q[1] + SeqSum(Tail(q))

\* render_audio with a band vector
render_audio(base, tt, params, bands, gain) ==
    LET level == NpClip(IF Len(bands) > 0 THEN SeqSum(bands) \div Len(bands) ELSE 0)
        speed_boost == Scale + Mul(120, level)
        amp == Mul(params.amplitude, Scale + Mul(gain, level))
    IN apply_waves_time(base, tt,
          WaveParams(params.freq_x, params.freq_y, Mul(params.speed_x, speed_boost),
                     Mul(params.speed_y, speed_boost), amp, params.contrast))

RECURSIVE SumOver(_, _)
SumOver(f, keys) ==
    IF keys = {} THEN 0
    ELSE LET k == CHOOSE k \in keys : TRUE
         IN f[k] + SumOver(f, keys \ {k})

GridMax(f) == CHOOSE m \in {f[c] : c \in Cells} : \A c \in Cells : f[c] <= m

\* the integer square root
Sqrt(v) == CHOOSE r \in 0..v : r * r <= v /\ (r + 1) * (r + 1) > v

\* np.power(edges, 1.0 - sensitivity * 0.5) for the sensitivities 0.0 and 1.0
EdgePower(e, sensitivity) ==
    IF sensitivity = 0 THEN e ELSE Sqrt(e * Scale)

\* np.power(fire, 0.6), to one decimal place
Power06(v) ==
    LET d == v \div 10
        r == CHOOSE r \in 0..10 : r^5 <= d^3 * 100 /\ (r + 1)^5 > d^3 * 100
    IN 10 * r

Abs(v) == IF v < 0 THEN 0 - v ELSE v

\* _detect_simple_edges
detect_simple_edges(image, sensitivity) ==
    LET raw == [cell \in Cells |->
                  IF cell[1] > 1 /\ cell[1] < GridRows /\ cell[2] > 1 /\ cell[2] < GridCols
                  THEN (Abs(image[cell] - image[<<cell[1] - 1, cell[2]>>])
                        + Abs(image[cell] - image[<<cell[1] + 1, cell[2]>>])
                        + Abs(image[cell] - image[<<cell[1], cell[2] - 1>>])
                        + Abs(image[cell] - image[<<cell[1], cell[2] + 1>>])) \div 4
                  ELSE 0]
        top == GridMax(raw)
        norm == [cell \in Cells |-> IF top > 0 THEN (raw[cell] * Scale) \div top ELSE raw[cell]]
    IN [cell \in Cells |-> EdgePower(norm[cell], sensitivity)]

\* _gaussian_blur_numpy: a box mean along the rows, then along the columns
gaussian_blur_numpy(img, radius) ==
    IF radius <= 0 THEN img
    ELSE LET temp == [cell \in Cells |->
                        LET x0 == Max(1, cell[2] - radius)
                            x1 == Min(GridCols, cell[2] + radius)
                        IN SumOver(img, {<<cell[1], x>> : x \in x0..x1}) \div (x1 - x0 + 1)]
         IN [cell \in Cells |->
                LET y0 == Max(1, cell[1] - radius)
                    y1 == Min(GridRows, cell[1] + radius)
                IN SumOver(temp, {<<y, cell[2]>> : y \in y0..y1}) \div (y1 - y0 + 1)]

\* _animate_fire_on_edges: the sum of the layers' waves at one cell
RECURSIVE LayerSum(_, _, _, _, _)
LayerSum(n, tt, wave_speed, row, col) ==
    IF n = 0 THEN 0
    ELSE LET k == n - 1
             freq_mult == 200 + k * 100
             phase_x == 10 + k * 5
             phase_y == 15 - k * 5
             weight == Scale \div (k + 1)
             wave == Sin(Radians(Mul(Mul(tt, freq_mult), wave_speed)
                                 + col * phase_x + row * phase_y))
         IN Mul(wave, weight) + LayerSum(n - 1, tt, wave_speed, row, col)

animate_fire_on_edges(edges, tt, wave_speed, amplitude, layers) ==
    [cell \in Cells |->
        LET sum == LayerSum(layers, tt, wave_speed, cell[1] - 1, cell[2] - 1)
            animation == NpClip(Mul(Mul(sum \div layers, amplitude), 50) + 50)
        IN Power06(Mul(edges[cell], animation))]

render_contourswim(base, tt, edge_sensitivity, edge_blur, wave_speed, amplitude, layers, glow) ==
    LET found == detect_simple_edges(base, edge_sensitivity)
        edges == IF edge_blur > 0 THEN gaussian_blur_numpy(found, Max(1, edge_blur))
                                  ELSE found
        effect == animate_fire_on_edges(edges, tt, wave_speed, amplitude, layers)
        threshold == Mul(10, Scale - Mul(edge_sensitivity, 50))
    IN [cell \in Cells |->
          IF edges[cell] > threshold
          THEN NpClip(base[cell] + Mul(effect[cell], glow))
          ELSE base[cell]]

\* ---- the settings the controls offer, a few values of each range
Times == {0, 100, 250}
FreqChoices == {0, 300}              \* sliders 0.0 .. 3.0
SpeedXChoices == {-300, 120}         \* sliders -3.0 .. 3.0
AmplitudeChoices == {0, 25, 200}     \* slider 0.0 .. 2.0
ContrastChoices == {50, 100, 250}    \* slider 0.5 .. 2.5
ParamChoices ==
    {WaveParams(f, f, sx, 0 - 90, amp, con) :
        f \in FreqChoices, sx \in SpeedXChoices, amp \in AmplitudeChoices,
        con \in ContrastChoices}
BandChoices == {<<>>, Zeros(6), [k \in 1..6 |-> Scale], [k \in 1..6 |-> 2 * Scale]}
GainChoices == {10, 2000}            \* audio_gain 0.1 .. 20.0
TargetChoices ==
    {NoTarget, TargetOf(<<GridRows + 1, GridCols>>, GridOf(0, 0, 0))}
        \cup {TargetOf(GridShape, GridOf(c, c, 0)) : c \in GridValues}
SensitivityChoices == {0, 100}       \* slider 0 .. 100 percent
BlurChoices == {0, 1}                \* int(blur / 100 * 5), 0 .. 5
WaveSpeedChoices == {0, 200}         \* slider 0 .. 200 percent
ContourAmplitudeChoices == {0, 100}  \* slider 0 .. 100 percent
LayerChoices == {1, 3}               \* stepper 1 .. 5
GlowChoices == {0, 100}              \* slider 0 .. 100 percent

NoParams == WaveParams(0, 0, 0, 0, 0, Scale)
DeformCall(op, base, tt) ==
    [op |-> op, pc |-> "called", base |-> base, t |-> tt, params |-> NoParams,
     target |-> NoTarget, bands |-> <<>>, gain |-> 0,
     contour |-> <<0, 0, 0, 0, 1, 0>>, out |-> base]

WavesCalls ==
    {[DeformCall("apply_waves_time", b, tt) EXCEPT !.params = p] :
        b \in Grids, tt \in Times, p \in ParamChoices}
MorphCalls ==
    {[DeformCall("render_morph", b, tt) EXCEPT !.target = tg,
                                               !.params = WaveParams(80, 60, 120, 0 - 90, a, Scale)] :
        b \in Grids, tt \in Times, tg \in TargetChoices, a \in AmplitudeChoices}
AudioCalls ==
    {[DeformCall("render_audio", b, tt) EXCEPT !.bands = bd, !.gain = gn,
                                               !.params = WaveParams(80, 60, 120, 0 - 90, a, Scale)] :
        b \in Grids, tt \in Times, bd \in BandChoices, gn \in GainChoices,
        a \in AmplitudeChoices}
ContourCalls ==
    {[DeformCall("render_contourswim", b, tt) EXCEPT !.contour = <<es, bl, ws, am, ly, gl>>] :
        b \in Grids, tt \in Times, es \in SensitivityChoices, bl \in BlurChoices,
        ws \in WaveSpeedChoices, am \in ContourAmplitudeChoices, ly \in LayerChoices,
        gl \in GlowChoices}

\* render_frame_gray, mode "waves"
D_Waves ==
    /\ call.op = "apply_waves_time" /\ call.pc = "called"
    /\ call' = [call EXCEPT !.pc = "returned",
                            !.out = apply_waves_time(call.base, call.t, call.params)]
    /\ UNCHANGED <<appVars, ringVars>>

\* render_frame_gray, mode "morphing"
D_Morph ==
    /\ call.op = "render_morph" /\ call.pc = "called"
    /\ call' = [call EXCEPT !.pc = "returned",
                            !.out = render_morph(call.base, call.target, call.t, call.params)]
    /\ UNCHANGED <<appVars, ringVars>>

\* render_frame_gray, mode "audio"
D_Audio ==
    /\ call.op = "render_audio" /\ call.pc = "called"
    /\ call' = [call EXCEPT !.pc = "returned",
                            !.out = render_audio(call.base, call.t, call.params,
                                                 call.bands, call.gain)]
    /\ UNCHANGED <<appVars, ringVars>>

\* render_frame_gray, mode "contourswim"
D_Contourswim ==
    /\ call.op = "render_contourswim" /\ call.pc = "called"
    /\ call' = [call EXCEPT !.pc = "returned",
                            !.out = render_contourswim(call.base, call.t, call.contour[1],
                                        call.contour[2], call.contour[3], call.contour[4],
                                        call.contour[5], call.contour[6])]
    /\ UNCHANGED <<appVars, ringVars>>

\* ---- apply_waves_time at two times, both speeds zero
ShiftChoices == {100, 250}
StillParamChoices ==
    {WaveParams(f, f, 0, 0, amp, con) :
        f \in FreqChoices, amp \in AmplitudeChoices, con \in ContrastChoices}
ShiftCalls ==
    {[op |-> "waves_shifted", pc |-> "called", base |-> b, t |-> tt, shift |-> sh,
      params |-> p, out |-> b, out_shifted |-> b] :
        b \in Grids, tt \in Times, sh \in ShiftChoices, p \in StillParamChoices}

\* apply_waves_time(base, t, params) and apply_waves_time(base, t + T, params)
D_WavesShifted ==
    /\ call.op = "waves_shifted" /\ call.pc = "called"
    /\ call' = [call EXCEPT !.pc = "returned",
                    !.out = apply_waves_time(call.base, call.t, call.params),
                    !.out_shifted = apply_waves_time(call.base, call.t + call.shift, call.params)]
    /\ UNCHANGED <<appVars, ringVars>>

\* ============================================================ build_ascii_image_color, the color of a cell
\* A luminance is j / LumDen, j in 0..LumDen; a color is <<r, g, b>>.
LumDen == 4 * LumSteps
Luminances == 0..LumDen
ColorChoices == {<<0, 0, 0>>, <<255, 128, 0>>, <<10, 200, 255>>}
StopLists == [1..5 -> ColorChoices]

\* int(x) of the quotient a / b, b > 0: truncation towards zero
IntOf(a, b) == IF a >= 0 THEN a \div b ELSE 0 - ((0 - a) \div b)

\* a segment index taken by rounding instead of flooring
SegRounded(j) == Min(3, (4 * j + LumDen \div 2) \div LumDen)
\* seg = int(min(3, math.floor(t * 4.0)))
Seg(j) == Min(3, (4 * j) \div LumDen)

\* local_t = (t - seg * 0.25) / 0.25, as the numerator over LumDen
LocalT(j) == 4 * j - Seg(j) * LumDen

\* int(c1[k] + (c2[k] - c1[k]) * local_t)
Channel(c1, c2, j) == IntOf(c1 * LumDen + (c2 - c1) * LocalT(j), LumDen)

\* c1 = color_stops[seg]; c2 = color_stops[seg + 1]; color = (...), stops counted from 1
CellColor(color_stops, j) ==
    [k \in 1..3 |-> Channel(color_stops[Seg(j) + 1][k], color_stops[Seg(j) + 2][k], j)]

ColorCalls ==
    {[op |-> "cell_color", pc |-> "called", stops |-> st, lum |-> j, seg |-> 0,
      color |-> <<0, 0, 0>>] : st \in StopLists, j \in Luminances}

\* one cell of build_ascii_image_color, lines 74-84 (and 105-115)
B_Color ==
    /\ call.op = "cell_color" /\ call.pc = "called"
    /\ call' = [call EXCEPT !.pc = "returned", !.seg = Seg(call.lum),
                            !.color = CellColor(call.stops, call.lum)]
    /\ UNCHANGED <<appVars, ringVars>>

\* ============================================================ get_edge_data behind functools.lru_cache
\* @functools.lru_cache(maxsize=16)
maxsize == 16

\* The arguments (key, gray_bytes): a shape key and the bytes of the gray grid.
EdgeShapes == {1, 2}
EdgeArgs(n) == <<((n - 1) % 2) + 1, ((n - 1) \div 2) + 1>>

\* the lookup compares the shape key only
SameShape(a, b) == a[1] = b[1]
\* lru_cache: the entry is found when key and gray_bytes both compare equal
SameArgs(a, b) == a = b

\* a hit leaves the entry where it is
Untouched(cache, k) == cache
\* lru_cache on a hit: the entry moves to the most recently used end
MoveToEnd(cache, k) ==
    [n \in 1..Len(cache) |-> IF n < k THEN cache[n]
                             ELSE IF n < Len(cache) THEN cache[n + 1] ELSE cache[k]]

\* lru_cache on a miss: the result is stored, a full cache first drops its oldest entry
\* (Evicted: the set of the arguments dropped, empty when none is)
Store(cache, entry) ==
    IF Len(cache) >= maxsize THEN Append(Tail(cache), entry) ELSE Append(cache, entry)
Evicted(cache) == IF Len(cache) >= maxsize THEN {cache[1].args} ELSE {}

\* lines 49-53: edges and dist computed from (h, w) and the bytes; a new pair of arrays
EdgeResult(args, number) == [obj |-> number, of |-> args]

Found(cache, args) == {k \in 1..Len(cache) : SameArgs(cache[k].args, args)}

\* The arguments of the next call: a pair never passed before, or one passed earlier.
UsedArgs(hist) == {hist[n].args : n \in 1..Len(hist)}
FreshArgs(hist) == EdgeArgs(Cardinality(UsedArgs(hist)) + 1)

EdgeCall == [op |-> "get_edge_data", pc |-> "idle", cache |-> <<>>, hist |-> <<>>,
             computations |-> 0, reuses |-> 0]

Hit(args, k, again) ==
    call' = [call EXCEPT
        !.reuses = call.reuses + again,
        !.cache = MoveToEnd(call.cache, k),
        !.hist = Append(call.hist, [args |-> args, ret |-> call.cache[k].result,
                                    computed |-> FALSE, evicted |-> {}])]
Miss(args, again) ==
    LET result == EdgeResult(args, call.computations + 1)
    IN  call' = [call EXCEPT
            !.reuses = call.reuses + again,
            !.cache = Store(call.cache, [args |-> args, result |-> result]),
            !.computations = call.computations + 1,
            !.hist = Append(call.hist, [args |-> args, ret |-> result, computed |-> TRUE,
                                        evicted |-> Evicted(call.cache)])]

GetEdgeData(args, again) ==
    IF Found(call.cache, args) # {}
    THEN Hit(args, CHOOSE k \in Found(call.cache, args) : TRUE, again)
    ELSE Miss(args, again)

E_CallNew ==
    /\ call.op = "get_edge_data" /\ Len(call.hist) < MaxCalls
    /\ GetEdgeData(FreshArgs(call.hist), 0)
    /\ UNCHANGED <<appVars, ringVars>>

E_CallAgain ==
    /\ call.op = "get_edge_data" /\ Len(call.hist) < MaxCalls /\ call.reuses < MaxReuse
    /\ \E args \in UsedArgs(call.hist) :
          GetEdgeData(args, 1)
    /\ UNCHANGED <<appVars, ringVars>>

\* ============================================================ MainWindow, the glyphs of the preview
\* The attributes that decide which glyph bitmaps a preview needs; they are the
\* fields of call while call.op = "window", next to mode, base_gray,
\* glyph_cache, running and skip_frames.
winRest == <<t, animation_speed_percent, stepper_fps, stepper_frames, accurate_frame_count, loader, was_running, play_checked>>

FontNames == {"Mono", "Serif"}
FontSizes == {16, 20}
\* _load_font: the font object, told apart by name and pixel size
LoadFont(name, px) == <<name, px>>
\* _measure_cell(font, "M"): width and height of the bounding box
MeasureCell(font) == <<font[2] \div 2 + (IF font[1] = "Serif" THEN 1 ELSE 0), font[2] - 4>>
\* _recalc_cell_size
RecalcCellW(font) == Max(6, MeasureCell(font)[1])
RecalcCellH(font) == Max(10, MeasureCell(font)[2])

\* ASCII_RAMP_PURE, and of the 70 characters of ASCII_RAMP_EXT the first two, the
\* fourth and the last two (the last is the full block)
ASCII_RAMP_PURE == <<" ", ".", ":", "-", "=", "+", "*", "#", "%", "@">>
ASCII_RAMP_EXT == <<" ", ".", "^", "$", "block">>
CustomTexts == {<<>>, <<"X">>, <<"X", "Y">>}

\* render_frame_pil, lines 5862-5868: custom symbols first, then the preset
RampInEffect(w) ==
    IF Len(w.custom_ramp) >= 2 THEN w.custom_ramp
    ELSE IF w.use_extended THEN ASCII_RAMP_EXT ELSE ASCII_RAMP_PURE

\* idx = int(v_for_char * n + 0.5), n = len(ramp) - 1, invert = False
CharIndex(j, ramp) == (2 * j * (Len(ramp) - 1) + LumDen) \div (2 * LumDen)

\* the palette: 5 stops; what the hex fields, the picker, randomize and import set
White == <<255, 255, 255>>
PickColors == {White, <<255, 128, 0>>}
StopIndexes == {0, 4}
Palettes == {[k \in 1..5 |-> c] : c \in PickColors}
SetStop(stops, index, color) == [stops EXCEPT ![index + 1] = color]

\* the luminances of the cells of one frame
FrameLums == {0, LumDen}
FrameCells == (SUBSET FrameLums) \ {{}}

\* build_ascii_image_color: cache_key = (ch, color)
CacheKey(w, j) == [ch |-> RampInEffect(w)[CharIndex(j, RampInEffect(w)) + 1], color |-> CellColor(w.color_stops, j)]
InCache(cache, key) == \E e \in cache : e.ch = key.ch /\ e.color = key.color
\* lines 88-91: the glyph drawn with font_pil into a cell_w x cell_h image
Rasterize(w, key) == [ch |-> key.ch, color |-> key.color, font |-> w.font_pil, cell_w |-> w.cell_w, cell_h |-> w.cell_h]
CacheAfterFrame(w, cache, cells) ==
    cache \cup {Rasterize(w, CacheKey(w, j)) : j \in {c \in cells : ~InCache(cache, CacheKey(w, c))}}
\* line 95: img.paste(glyph_cache[cache_key], ...)
Pasted(w, cache, cells) ==
    {e \in CacheAfterFrame(w, cache, cells) : \E j \in cells : e.ch = CacheKey(w, j).ch /\ e.color = CacheKey(w, j).color}

\* glyph_cache.clear() left out
Kept(cache) == cache
\* self.glyph_cache.clear()
Clear(cache) == {}

\* SixBandAnalyzer.smoothed seen through render_frame_gray: "absent" before the
\* first audio render creates _audio_an, then all zero or not
AnalyzerStates == {"absent", "zero", "nonzero"}
\* process(samples): zeros stay zeros on silence, a*smoothed + (1-a)*norm otherwise
Process(smoothed, loud) == IF loud THEN "nonzero" ELSE IF smoothed = "absent" THEN "zero" ELSE smoothed
AudioMode(m) == m \in {"audio", "audioreactive_alt"}

WindowInit ==
    [op |-> "window", last |-> "init", font_name |-> "Mono", anim_font_px |-> 16,
     font_pil |-> LoadFont("Mono", 16), cell_w |-> 9, cell_h |-> 16,
     use_extended |-> FALSE, custom_ramp |-> <<>>, color_stops |-> [k \in 1..5 |-> White],
     audio_an |-> "absent", handled |-> 0,
     rendered |-> FALSE, empty_at_render |-> TRUE, pasted |-> {}, mode_before |-> "waves",
     an_before |-> "absent"]

\* update_preview(True) at the end of handler op: w holds the attributes, m the mode
\* and bg the grid as the handler set them, cache the glyph cache as it left it
ShowPreview(op, w, m, bg, cache, cells, loud, rt) ==
    IF bg = None
    THEN /\ call' = [w EXCEPT !.last = op, !.handled = call.handled + 1,
                              !.rendered = FALSE, !.pasted = {},
                              !.mode_before = mode, !.an_before = call.audio_an]
         /\ glyph_cache' = cache
         /\ skip_frames' = skip_frames
    ELSE /\ call' = [w EXCEPT !.last = op, !.handled = call.handled + 1,
                              !.rendered = TRUE,
                              !.empty_at_render = (cache = {}),
                              !.pasted = Pasted(w, cache, cells),
                              !.mode_before = mode, !.an_before = call.audio_an,
                              !.audio_an = IF AudioMode(m) THEN Process(w.audio_an, loud)
                                           ELSE w.audio_an]
         /\ glyph_cache' = CacheAfterFrame(w, cache, cells)
         /\ skip_frames' = SkipAfter(rt, skip_frames)

WindowOpen == call.op = "window" /\ UIFree /\ call.handled < MaxHandled
WindowFrame == UNCHANGED <<winRest, postfxVars, workerVars, obsVars, ringVars>>

on_load ==
    \E cells \in FrameCells, loud \in BOOLEAN, rt \in RenderTimes :
      /\ WindowOpen
      /\ base_gray' = "grid" /\ running' = TRUE /\ mode' = mode
      /\ ShowPreview("on_load",
                     [call EXCEPT !.cell_w = RecalcCellW(call.font_pil), !.cell_h = RecalcCellH(call.font_pil)],
                     mode, "grid", glyph_cache, cells, loud, rt)
      /\ WindowFrame

on_font_changed ==
    \E name \in FontNames, cells \in FrameCells, loud \in BOOLEAN, rt \in RenderTimes :
      /\ WindowOpen
      /\ UNCHANGED <<base_gray, running, mode>>
      /\ ShowPreview("on_font_changed",
                     [call EXCEPT !.font_name = name, !.font_pil = LoadFont(name, call.anim_font_px),
                                  !.cell_w = RecalcCellW(LoadFont(name, call.anim_font_px)),
                                  !.cell_h = RecalcCellH(LoadFont(name, call.anim_font_px))],
                     mode, base_gray, Clear(glyph_cache), cells, loud, rt)
      /\ WindowFrame

on_anim_font_px_changed ==
    \E px \in FontSizes, cells \in FrameCells, loud \in BOOLEAN, rt \in RenderTimes :
      /\ WindowOpen
      /\ UNCHANGED <<base_gray, running, mode>>
      /\ ShowPreview("on_anim_font_px_changed",
                     [call EXCEPT !.anim_font_px = px, !.font_pil = LoadFont(call.font_name, px),
                                  !.cell_w = RecalcCellW(LoadFont(call.font_name, px)),
                                  !.cell_h = RecalcCellH(LoadFont(call.font_name, px))],
                     mode, base_gray, Clear(glyph_cache), cells, loud, rt)
      /\ WindowFrame

on_ramp_changed ==
    \E checked \in BOOLEAN, cells \in FrameCells, loud \in BOOLEAN, rt \in RenderTimes :
      /\ WindowOpen
      /\ UNCHANGED <<base_gray, running, mode>>
      /\ ShowPreview("on_ramp_changed", [call EXCEPT !.use_extended = checked],
                     mode, base_gray, Clear(glyph_cache), cells, loud, rt)
      /\ WindowFrame

on_custom_symbols_changed ==
    \E text \in CustomTexts, cells \in FrameCells, loud \in BOOLEAN, rt \in RenderTimes :
      /\ WindowOpen
      /\ UNCHANGED <<base_gray, running, mode>>
      /\ ShowPreview("on_custom_symbols_changed", [call EXCEPT !.custom_ramp = text],
                     mode, base_gray, Clear(glyph_cache), cells, loud, rt)
      /\ WindowFrame

\* make_hex_changed: a valid hex text typed into the field of stop index
on_hex_change ==
    \E index \in StopIndexes, color \in PickColors, cells \in FrameCells, loud \in BOOLEAN, rt \in RenderTimes :
      /\ WindowOpen
      /\ UNCHANGED <<base_gray, running, mode>>
      /\ ShowPreview("on_hex_change", [call EXCEPT !.color_stops = SetStop(call.color_stops, index, color)],
                     mode, base_gray, glyph_cache, cells, loud, rt)
      /\ WindowFrame

\* make_color_picker: a valid color chosen in the dialog for stop index
pick ==
    \E index \in StopIndexes, color \in PickColors, cells \in FrameCells, loud \in BOOLEAN, rt \in RenderTimes :
      /\ WindowOpen
      /\ UNCHANGED <<base_gray, running, mode>>
      /\ ShowPreview("pick", [call EXCEPT !.color_stops = SetStop(call.color_stops, index, color)],
                     mode, base_gray, glyph_cache, cells, loud, rt)
      /\ WindowFrame

randomize_palette ==
    \E stops \in Palettes, cells \in FrameCells, loud \in BOOLEAN, rt \in RenderTimes :
      /\ WindowOpen
      /\ UNCHANGED <<base_gray, running, mode>>
      /\ ShowPreview("randomize_palette", [call EXCEPT !.color_stops = stops],
                     mode, base_gray, Clear(glyph_cache), cells, loud, rt)
      /\ WindowFrame

\* import_palette with a file chosen and read
import_palette ==
    \E stops \in Palettes, cells \in FrameCells, loud \in BOOLEAN, rt \in RenderTimes :
      /\ WindowOpen
      /\ UNCHANGED <<base_gray, running, mode>>
      /\ ShowPreview("import_palette", [call EXCEPT !.color_stops = stops],
                     mode, base_gray, Clear(glyph_cache), cells, loud, rt)
      /\ WindowFrame

on_mode_changed ==
    \E m \in ModeNames, cells \in FrameCells, loud \in BOOLEAN, rt \in RenderTimes :
      /\ WindowOpen
      /\ mode' = ModeMap(m)
      /\ UNCHANGED <<base_gray, running>>
      /\ ShowPreview("on_mode_changed", call, ModeMap(m), base_gray, Clear(glyph_cache), cells, loud, rt)
      /\ WindowFrame

\* on_glow_enabled_changed: the flag of the post effects, then update_preview()
on_glow_enabled_changed ==
    \E cells \in FrameCells, loud \in BOOLEAN, rt \in RenderTimes :
      /\ WindowOpen
      /\ UNCHANGED <<base_gray, running, mode>>
      /\ ShowPreview("on_glow_enabled_changed", call, mode, base_gray, glyph_cache, cells, loud, rt)
      /\ WindowFrame

\* ============================================================ SixBandAnalyzer.process, the smoothing of the bands
\* Band values are fixed point, Scale is 1.0.  norm, the gated band levels of
\* lines 39-47, is drawn per call: at odd bands one level, at even bands another.
NormChoices == {0, 20, 50, 90}
NormVectors == {[k \in 1..6 |-> IF k % 2 = 1 THEN a ELSE b] : a, b \in NormChoices}

\* self.alpha_attack = 0.35, self.alpha_release = 0.1
alpha_attack == (35 * Scale) \div 100
alpha_release == (10 * Scale) \div 100

\* a = self.alpha_attack if norm[i] > self.smoothed[i] else self.alpha_release
Alpha(norm, smoothed) == IF norm > smoothed THEN alpha_attack ELSE alpha_release
\* self.smoothed[i] = a * self.smoothed[i] + (1 - a) * norm[i]
Smooth(norm, smoothed) == Mul(Alpha(norm, smoothed), smoothed) + Mul(Scale - Alpha(norm, smoothed), norm)

\* a new analyzer: self.smoothed = np.zeros(6)
SmoothingCall == [op |-> "smoothing", smoothed |-> [k \in 1..6 |-> 0], steps |-> <<>>]

\* process, lines 48-53, on the analyzer's own smoothed
A_Process ==
    \E norm \in NormVectors :
      /\ call.op = "smoothing" /\ Len(call.steps) < MaxProcess
      /\ call' = [call EXCEPT
            !.smoothed = [k \in 1..6 |-> Smooth(norm[k], call.smoothed[k])],
            !.steps = Append(call.steps,
                             [norm |-> norm, before |-> call.smoothed,
                              after |-> [k \in 1..6 |-> Smooth(norm[k], call.smoothed[k])]])]
      /\ UNCHANGED <<appVars, ringVars>>

\* ============================================================ resize_to_char_grid
\* max_cols: int = 260, max_rows: int = 180
max_cols == 260
max_rows == 180

ImageWidths == {1, 47, 96, 1200, 4096}
ImageHeights == {1, 63, 100, 1500, 4096}
CellWidths == {1, 6, 9}
CellHeights == {1, 8, 16}
\* cols / rows as passed: None, or a number
NotGiven == [given |-> FALSE, value |-> 0]
Given(n) == [given |-> TRUE, value |-> n]
ColsChoices == {NotGiven} \cup {Given(n) : n \in {-3, 5, 40, 300}}
RowsChoices == {NotGiven} \cup {Given(n) : n \in {0, 8, 40, 200}}

\* lines 30-31: cols = min(max_cols, max(16, w // max(6, cell_w))) if cols is None
DerivedCols(w, cell_w, cols) ==
    IF cols.given THEN cols.value ELSE Min(max_cols, Max(16, w \div Max(6, cell_w)))
\* lines 32-33: rows = min(max_rows, max(8, h // max(8, cell_h))) if rows is None
DerivedRows(h, cell_h, rows) ==
    IF rows.given THEN rows.value ELSE Min(max_rows, Max(8, h \div Max(8, cell_h)))

\* the number taken as it is
AsGiven(n) == n
\* lines 34-35: cols = max(8, int(cols)); rows = max(8, int(rows))
AtLeast8(n) == Max(8, n)

\* lines 36-42: the image resized to (cols, rows); the array has shape (rows, cols)
resize_to_char_grid(w, h, cell_w, cell_h, cols, rows) ==
    [shape |-> <<AtLeast8(DerivedRows(h, cell_h, rows)), AtLeast8(DerivedCols(w, cell_w, cols))>>,
     cols |-> AtLeast8(DerivedCols(w, cell_w, cols)),
     rows |-> AtLeast8(DerivedRows(h, cell_h, rows))]

ResizeCalls ==
    {[op |-> "resize_to_char_grid", pc |-> "called", w |-> w, h |-> h, cell_w |-> cw, cell_h |-> ch,
      cols |-> c, rows |-> r, ret |-> [shape |-> <<0, 0>>, cols |-> 0, rows |-> 0]] :
        w \in ImageWidths, h \in ImageHeights, cw \in CellWidths, ch \in CellHeights,
        c \in ColsChoices, r \in RowsChoices}

R_Resize ==
    /\ call.op = "resize_to_char_grid" /\ call.pc = "called"
    /\ call' = [call EXCEPT !.pc = "returned",
                            !.ret = resize_to_char_grid(call.w, call.h, call.cell_w, call.cell_h,
                                                        call.cols, call.rows)]
    /\ UNCHANGED <<appVars, ringVars>>

\* ============================================================ input fields
\* NewStepperWidget and the hex field of a color stop. The text of a field is what
\* int() and the hex pattern make of it: "canonical" is the text str(n) produces,
\* "padded" a text int() also reads as n (" 7", "+7", "007"), "junk" a text int()
\* rejects, "empty" the empty field; a hex text is "#RRGGBB" ("hash"), "RRGGBB"
\* ("bare") or anything the pattern rejects ("malformed").
MaxEdits == 4
StepperRanges == {<<1, 3>>, <<2, 5>>}
TypedNumbers == 0..6
Str(n) == [kind |-> "canonical", n |-> n]
StepperTexts ==
    {[kind |-> k, n |-> n] : k \in {"canonical", "padded"}, n \in TypedNumbers}
        \cup {[kind |-> "junk", n |-> 0], [kind |-> "empty", n |-> 0]}
\* text = self.display.text().strip(); if text: int(text): the value read, if any
ParseInt(text) == IF text.kind \in {"canonical", "padded"} THEN {text.n} ELSE {}

HexText(kind, color) == [kind |-> kind, color |-> color]
HexTexts ==
    {HexText(k, c) : k \in {"hash", "bare"}, c \in PickColors} \cup {HexText("malformed", White)}
\* re.match(r'^#?[0-9A-Fa-f]{6}$', text), then QColor('#' + digits)
ParseHex(text) == IF text.kind \in {"hash", "bare"} THEN {text.color} ELSE {}

\* every stepper is constructed with a value inside its range
InputCalls ==
    {c \in {[op |-> "input", last |-> "init", edits |-> 0, minimum |-> r[1], maximum |-> r[2],
      value |-> v, before |-> v, display |-> Str(v), typed |-> Str(v), emitted |-> FALSE,
      stop |-> White, stop_before |-> White, hex_field |-> HexText("hash", White),
      hex_valid |-> HexText("hash", White)] : r \in StepperRanges, v \in TypedNumbers} :
        c.value \in c.minimum..c.maximum}

InputOpen == call.op = "input" /\ call.edits < MaxEdits
Did(name, c) ==
    [c EXCEPT !.last = name, !.edits = call.edits + 1, !.before = call.value,
              !.stop_before = call.stop]

\* NewStepperWidget.decrease
decrease ==
    /\ InputOpen
    /\ call' = Did("decrease",
                   IF call.value > call.minimum
                   THEN [call EXCEPT !.value = call.value - 1, !.display = Str(call.value - 1),
                                     !.emitted = TRUE]
                   ELSE [call EXCEPT !.emitted = FALSE])
    /\ UNCHANGED <<appVars, ringVars>>

\* NewStepperWidget.increase
increase ==
    /\ InputOpen
    /\ call' = Did("increase",
                   IF call.value < call.maximum
                   THEN [call EXCEPT !.value = call.value + 1, !.display = Str(call.value + 1),
                                     !.emitted = TRUE]
                   ELSE [call EXCEPT !.emitted = FALSE])
    /\ UNCHANGED <<appVars, ringVars>>

\* NewStepperWidget.setValue(value)
setValue ==
    \E value \in TypedNumbers :
      /\ InputOpen
      /\ call' = Did("setValue",
                     [call EXCEPT !.value = StepperSet(value, call.minimum, call.maximum),
                                  !.display = Str(StepperSet(value, call.minimum, call.maximum)),
                                  !.emitted = FALSE])
      /\ UNCHANGED <<appVars, ringVars>>

\* NewStepperWidget._on_text_edited, after the user left `text` in the display
on_text_edited ==
    \E text \in StepperTexts :
      /\ InputOpen
      /\ call' = Did("_on_text_edited",
                     IF ParseInt(text) = {}
                     THEN [call EXCEPT !.typed = text, !.display = Str(call.value),
                                       !.emitted = FALSE]
                     ELSE LET new_value == CHOOSE n \in
                                  {StepperSet(m, call.minimum, call.maximum) : m \in ParseInt(text)} : TRUE
                          IN [call EXCEPT !.typed = text, !.value = new_value,
                                          !.display = Str(new_value),
                                          !.emitted = new_value # call.value])
      /\ UNCHANGED <<appVars, ringVars>>

\* make_hex_changed.on_hex_change, after the user left `text` in the hex field: a
\* text the pattern accepts sets the stop, any other text is ignored; the field is
\* never written
hex_changed ==
    \E text \in HexTexts :
      /\ InputOpen
      /\ call' = Did("on_hex_change",
                     IF ParseHex(text) = {}
                     THEN [call EXCEPT !.hex_field = text]
                     ELSE [call EXCEPT !.hex_field = text, !.hex_valid = text,
                                       !.stop = CHOOSE c \in ParseHex(text) : TRUE])
      /\ UNCHANGED <<appVars, ringVars>>

\* ============================================================ the transforms and the grid they are given
\* A grid is an array object: which object it is, and what it holds. A transform
\* that computes its result with numpy expressions hands back a new array; one
\* that returns its argument hands back the very object it was given.
GridObject(id, data) == [id |-> id, data |-> data]
NewArray(data) == GridObject("result", data)
DefaultParams == WaveParams(80, 60, 120, 0 - 90, 25, Scale)
DefaultContour == <<50, 1, 100, 50, 3, 50>>

\* swarm.render_swarm: return base_gray
render_swarm(base_obj, tt) == base_obj
\* a render_swarm that would copy the grid
render_swarm_copy(base_obj, tt) == NewArray(base_obj.data)

\* MainWindow.render_frame_gray by mode, with no audio device and no color image:
\* "swarm" passes to the final `return self.base_gray`, "audioreactive_alt" returns
\* self.base_gray when img_color is None
FrameModes == {"waves", "morphing", "audio", "swarm", "contourswim", "audioreactive_alt"}
render_frame_gray(md, base_obj, tt) ==
    CASE md = "waves" -> NewArray(apply_waves_time(base_obj.data, tt, DefaultParams))
      [] md = "morphing" -> NewArray(render_morph(base_obj.data, NoTarget, tt, DefaultParams))
      [] md = "audio" -> NewArray(render_audio(base_obj.data, tt, DefaultParams, Zeros(6), 10))
      [] md = "contourswim" ->
            NewArray(render_contourswim(base_obj.data, tt, DefaultContour[1], DefaultContour[2],
                        DefaultContour[3], DefaultContour[4], DefaultContour[5],
                        DefaultContour[6]))
      [] OTHER -> base_obj

TransformNames ==
    {"apply_waves_time", "render_morph", "render_audio", "render_contourswim", "render_swarm"}
Transform(fn, base_obj, tt) ==
    CASE fn = "apply_waves_time" -> NewArray(apply_waves_time(base_obj.data, tt, DefaultParams))
      [] fn = "render_morph" ->
            NewArray(render_morph(base_obj.data, TargetOf(GridShape, GridOf(Scale, 0, Scale)),
                                  tt, DefaultParams))
      [] fn = "render_audio" ->
            NewArray(render_audio(base_obj.data, tt, DefaultParams, [k \in 1..6 |-> Scale], 10))
      [] fn = "render_contourswim" ->
            NewArray(render_contourswim(base_obj.data, tt, DefaultContour[1], DefaultContour[2],
                        DefaultContour[3], DefaultContour[4], DefaultContour[5],
                        DefaultContour[6]))
      [] fn = "render_swarm" -> render_swarm(base_obj, tt)

\* a call: the base grid object as the caller holds it, and its contents beforehand
TransformCalls ==
    {[op |-> "transform", pc |-> "called", fn |-> f, mode |-> md,
      base |-> GridObject("base_gray", b), held |-> b, t |-> tt,
      ret |-> GridObject("none", GridOf(0, 0, 0))] :
        f \in TransformNames \cup {"render_frame_gray"}, md \in FrameModes,
        b \in Grids, tt \in Times}

\* one render call; no transform writes into the array it is given
T_Render ==
    /\ call.op = "transform" /\ call.pc = "called"
    /\ call' = [call EXCEPT !.pc = "returned",
                            !.ret = IF call.fn = "render_frame_gray"
                                    THEN render_frame_gray(call.mode, call.base, call.t)
                                    ELSE Transform(call.fn, call.base, call.t)]
    /\ UNCHANGED <<appVars, ringVars>>

\* ============================================================ the FPS stepper and the animation speed
\* The user leaves f in the FPS stepper (valueChanged), on_export_fps_changed turns
\* it into a percent, _set_animation_speed keeps the percent and writes the fps
\* it stands for back into the stepper.
FpsRange == 1..300
FpsCalls ==
    {[op |-> "on_export_fps_changed", pc |-> "called", f |-> f, percent |-> 0, stepper |-> f] :
        f \in FpsRange}

F_ExportFpsChanged ==
    /\ call.op = "on_export_fps_changed" /\ call.pc = "called"
    /\ call' = [call EXCEPT !.pc = "returned",
                            !.percent = SpeedKept(PercentFromFps(call.f)),
                            !.stepper = FpsFromPercent(SpeedKept(PercentFromFps(call.f)))]
    /\ UNCHANGED <<appVars, ringVars>>

\* ============================================================ the base grid and the morph target
\* Shapes only: the base grid and the morph target are both made by
\* resize_to_char_grid, the base grid again by every rebuild, the target only when
\* it is loaded.
NoGridArray == [given |-> FALSE, shape |-> <<0, 0>>]
ArrayOf(shape) == [given |-> TRUE, shape |-> shape]
SourceSizes == {<<96, 100>>, <<1200, 1500>>}      \* image files, width x height
PatternSizes == {<<512, 512>>}                    \* QInputDialog.getInt 64 .. 4096
GridColsChoices == {8, 40}                        \* stepper_cols 8 .. 400
GridRowsChoices == {8, 40}                        \* stepper_rows 8 .. 240
CellSizes == {<<6, 10>>, <<9, 16>>}               \* _recalc_cell_size: max(6, w), max(10, h)

MorphState ==
    [op |-> "morph", last |-> "init", img |-> <<0, 0>>, cell |-> <<6, 10>>,
     grid_cols |-> 40, grid_rows |-> 40, base |-> NoGridArray, morph_target |-> NoGridArray]

\* morph.render_morph: target_gray is None or target_gray.shape != base_gray.shape
MorphFallsBack(base, target) == ~target.given \/ target.shape # base.shape

\* rebuild_base_grid: nothing without an image, else the image resized to the
\* grid_cols x grid_rows in force; morph_target is not touched
RebuildBaseGrid(c) ==
    IF c.img = <<0, 0>> THEN c
    ELSE [c EXCEPT !.base = ArrayOf(resize_to_char_grid(c.img[1], c.img[2], c.cell[1], c.cell[2],
                                        Given(c.grid_cols), Given(c.grid_rows)).shape)]

\* on_load and on_generate_pattern: cols and rows derived from the image and the cell
LoadSource(name, dims) ==
    LET made == resize_to_char_grid(dims[1], dims[2], call.cell[1], call.cell[2],
                                    NotGiven, NotGiven)
    IN [call EXCEPT !.last = name, !.img = dims, !.base = ArrayOf(made.shape),
                    !.grid_cols = made.cols, !.grid_rows = made.rows]

M_Load ==
    \E dims \in SourceSizes :
      /\ call.op = "morph"
      /\ call' = LoadSource("on_load", dims)
      /\ UNCHANGED <<appVars, ringVars>>

M_GeneratePattern ==
    \E dims \in PatternSizes :
      /\ call.op = "morph"
      /\ call' = LoadSource("on_generate_pattern", dims)
      /\ UNCHANGED <<appVars, ringVars>>

\* on_load_morph_target: the second image resized to grid_cols x grid_rows
M_LoadMorphTarget ==
    \E dims \in SourceSizes :
      /\ call.op = "morph"
      /\ call' = [call EXCEPT !.last = "on_load_morph_target",
                      !.morph_target =
                          ArrayOf(resize_to_char_grid(dims[1], dims[2], call.cell[1],
                                      call.cell[2], Given(call.grid_cols),
                                      Given(call.grid_rows)).shape)]
      /\ UNCHANGED <<appVars, ringVars>>

\* on_cols_changed(v), from the columns stepper
M_ColsChanged ==
    \E v \in GridColsChoices :
      /\ call.op = "morph" /\ v # call.grid_cols
      /\ call' = RebuildBaseGrid([call EXCEPT !.last = "on_cols_changed", !.grid_cols = v])
      /\ UNCHANGED <<appVars, ringVars>>

\* on_rows_changed(v), from the rows stepper
M_RowsChanged ==
    \E v \in GridRowsChoices :
      /\ call.op = "morph" /\ v # call.grid_rows
      /\ call' = RebuildBaseGrid([call EXCEPT !.last = "on_rows_changed", !.grid_rows = v])
      /\ UNCHANGED <<appVars, ringVars>>

\* on_font_changed / on_anim_font_px_changed: the cell measured again, then rebuild
M_FontChanged ==
    \E cell \in CellSizes :
      /\ call.op = "morph" /\ cell # call.cell
      /\ call' = RebuildBaseGrid([call EXCEPT !.last = "on_font_changed", !.cell = cell])
      /\ UNCHANGED <<appVars, ringVars>>

\* ============================================================ initial states
\* RingBuffer.__init__
RingIdle ==
    /\ buf = [k \in 1..RingCapacity |-> 0] /\ write_idx = 0 /\ size = 0 /\ lock = "free"
    /\ log = <<>> /\ wr = WriterIdle /\ rd = ReaderIdle

AppInit ==
    /\ t = 0 /\ running = FALSE /\ base_gray = None /\ mode = "waves"
    /\ animation_speed_percent = 100 /\ stepper_fps = BaseFps /\ stepper_frames = FramesMin
    /\ skip_frames = FALSE /\ glyph_cache = {} /\ accurate_frame_count = 0
    /\ loader = "closed" /\ was_running = FALSE /\ play_checked = FALSE
    /\ crt_enabled = FALSE /\ crt_shake = 0
    /\ crt_shake_offset_x = 0 /\ crt_shake_offset_y = 0
    /\ accurate_preview = FALSE /\ use_gpu_preview = TRUE
    /\ wpc = "idle" /\ fmt = "GIF" /\ frames = FramesMin /\ fps = BaseFps
    /\ cancel_flag = FALSE /\ i = 0 /\ dt_export = <<0, 1>> /\ t_now = <<0, 1>>
    /\ out = 0 /\ written = 0 /\ success = FALSE /\ exc = FALSE /\ write_failed = FALSE
    /\ file = "absent" /\ errors = 0 /\ dones = 0 /\ signal = "none"
    /\ stamps = <<>> /\ g = NoGrid /\ worker_cache_arg = "unset"
    /\ seen = [cfg |-> <<>>, i |-> -1, g |-> NoGrid]
    /\ fxlog = NoFx

Init == AppInit /\ RingIdle /\ call = [op |-> "none"]

Next ==
    \/ OnTick \/ OnStartStop \/ OnAnimationSpeedSliderChanged \/ OnExportSpeedSliderChanged
    \/ OnExportFpsChanged \/ OnFramesChanged \/ OnModeChanged \/ OnLoad \/ OnColsChanged
    \/ OnExport \/ Cancel \/ OnDone \/ OnError
    \/ WorkerStep

Spec == Init /\ [][Next]_vars

\* The preview and the export worker side by side: with CRT shake on, every tick
\* renders a preview through glyph_cache, also while the worker runs.
NextCache ==
    \/ OnTick \/ OnLoad \/ OnCrtEnabledChanged \/ OnCrtShakeChanged
    \/ OnExport \/ Cancel \/ OnDone \/ OnError
    \/ WorkerStep

SpecCache == Init /\ [][NextCache]_vars

\* The post effects of the preview: the CRT switch, the shake slider over
\* intensities that move the frame, the two preview tiers, and ticks.
NextFx ==
    \/ OnTick \/ OnLoad \/ OnCrtEnabledChanged \/ OnShakeSlider
    \/ OnAccuratePreviewChanged \/ OnGpuPreviewChanged

SpecFx == Init /\ [][NextFx]_vars

\* The export loop beside the timer: the worker thread makes a shake pair, renders
\* the frame and applies the pair, while the GUI thread's ticks go on.
NextShake ==
    \/ OnTick \/ OnLoad \/ OnCrtEnabledChanged \/ OnShakeSlider \/ OnExport
    \/ W_Begin \/ W_LoopHead \/ W_Shake \/ W_Render \/ W_Fx

SpecShake == Init /\ [][NextShake]_vars

\* Two exports of one configuration: a frame of a run is kept (its index, the
\* run's configuration, its grid) to be compared with the same frame of a later run.
RunConfig == <<mode, dt_export, frames>>

Observe ==
    /\ wpc = "fx"
    /\ seen' = [cfg |-> RunConfig, i |-> i, g |-> g]
    /\ UNCHANGED <<mainVars, postfxVars, workerVars, stamps, g, worker_cache_arg, fxlog,
                   ringVars, call>>

NextRepro ==
    \/ OnLoad \/ OnModeChanged \/ OnExport \/ OnDone \/ OnError \/ Observe
    \/ WorkerStep

SpecRepro == Init /\ [][NextRepro]_vars

\* The audio callback thread and the render thread on one ring buffer.
NextRing ==
    \/ Wr_Call \/ Wr_Acquire \/ Wr_Truncate \/ Wr_Copy \/ Wr_Copy2 \/ Wr_SetIdx
    \/ Wr_SetSize \/ Wr_Release
    \/ Rd_Call \/ Rd_Acquire \/ Rd_Read \/ Rd_Release \/ Rd_Drop

SpecRing == Init /\ [][NextRing]_vars

\* One call of SixBandAnalyzer.process from the audio mode's render, per input.
InitAnalyzer == AppInit /\ RingIdle /\ call \in {AnalyzerCall(m) : m \in MonoInputs}

NextAnalyzer == A_Pad \/ A_Bands \/ A_Fallback

SpecAnalyzer == InitAnalyzer /\ [][NextAnalyzer]_vars

\* One call of a deformation function, per grid, time and setting.
InitDeform ==
    AppInit /\ RingIdle /\ call \in (WavesCalls \cup MorphCalls \cup AudioCalls \cup ContourCalls)

NextDeform == D_Waves \/ D_Morph \/ D_Audio \/ D_Contourswim

SpecDeform == InitDeform /\ [][NextDeform]_vars

\* apply_waves_time called at t and at t + T with speed_x = speed_y = 0.
InitShift == AppInit /\ RingIdle /\ call \in ShiftCalls

NextShift == D_WavesShifted

SpecShift == InitShift /\ [][NextShift]_vars

\* The color of one cell, per list of 5 stops and luminance.
InitColor == AppInit /\ RingIdle /\ call \in ColorCalls

NextColor == B_Color

SpecColor == InitColor /\ [][NextColor]_vars

\* Calls of get_edge_data, one after another, on one cache.
InitEdges == AppInit /\ RingIdle /\ call = EdgeCall

NextEdges == E_CallNew \/ E_CallAgain

SpecEdges == InitEdges /\ [][NextEdges]_vars

\* The handlers that change what the preview's glyphs look like.
InitWindow == AppInit /\ RingIdle /\ call = WindowInit

NextWindow ==
    \/ on_load \/ on_font_changed \/ on_anim_font_px_changed \/ on_ramp_changed
    \/ on_custom_symbols_changed \/ on_hex_change \/ pick \/ randomize_palette
    \/ import_palette \/ on_mode_changed \/ on_glow_enabled_changed

SpecWindow == InitWindow /\ [][NextWindow]_vars

\* Calls of process on one analyzer, one after another.
InitSmoothing == AppInit /\ RingIdle /\ call = SmoothingCall

NextSmoothing == A_Process

SpecSmoothing == InitSmoothing /\ [][NextSmoothing]_vars

\* One call of resize_to_char_grid, per image size, cell size and cols / rows.
InitResize == AppInit /\ RingIdle /\ call \in ResizeCalls

NextResize == R_Resize

SpecResize == InitResize /\ [][NextResize]_vars

\* Frame dropping: ticks kept in view, preview tiers, play/pause, and exports.
NextSkip ==
    \/ OnTickSeen \/ OnLoad \/ OnStartStop \/ OnAccuratePreviewChanged
    \/ OnExport \/ Cancel \/ OnDone \/ OnError
    \/ WorkerStep

SpecSkip == Init /\ [][NextSkip]_vars

\* A stepper and a hex field under any edits.
InitInput == AppInit /\ RingIdle /\ call \in InputCalls

NextInput == decrease \/ increase \/ setValue \/ on_text_edited \/ hex_changed

SpecInput == InitInput /\ [][NextInput]_vars

\* Every transform called once on a base grid.
InitTransform == AppInit /\ RingIdle /\ call \in TransformCalls

NextTransform == T_Render

SpecTransform == InitTransform /\ [][NextTransform]_vars

\* Export sessions from start to end. The worker thread keeps running once started
\* and the event loop delivers every queued signal, so the worker's steps and the
\* two slots are weakly fair; pressing cancel is up to the user.
NextSession ==
    \/ OnLoad \/ OnStartStop \/ OnExport \/ Cancel \/ OnDone \/ OnError
    \/ WorkerStep

SpecSession ==
    /\ Init /\ [][NextSession]_vars
    /\ WF_vars(WorkerStep) /\ WF_vars(OnDone) /\ WF_vars(OnError)

\* The FPS stepper set to every value of its range.
InitFps == AppInit /\ RingIdle /\ call \in FpsCalls

NextFps == F_ExportFpsChanged

SpecFps == InitFps /\ [][NextFps]_vars

\* The base grid and the morph target under loads, patterns, grid and font changes.
InitMorph == AppInit /\ RingIdle /\ call = MorphState

NextMorph ==
    \/ M_Load \/ M_GeneratePattern \/ M_LoadMorphTarget
    \/ M_ColsChanged \/ M_RowsChanged \/ M_FontChanged

SpecMorph == InitMorph /\ [][NextMorph]_vars

\* ============================================================ properties
RunEnded == wpc = "finished"

\* C1: frame i of an export is rendered at t_i = i * (1/max(1,fps)) * (speed/100),
\* with fps and speed as they were when the run started; the timestamps of a run
\* are strictly increasing, and frames are stamped in index order.
StampLess(a, b) == a[1] * b[2] < b[1] * a[2]
C1_ExportTimestamps ==
    /\ \A k \in 1..Len(stamps) :
         stamps[k] = <<(k - 1) * animation_speed_percent, 100 * Max(1, fps)>>
    /\ \A k \in 1..(Len(stamps) - 1) : StampLess(stamps[k], stamps[k + 1])
    /\ Len(stamps) = IF wpc \in {"shake", "render", "fx"} THEN i + 1 ELSE i
    /\ (fps = 30 /\ animation_speed_percent = 100 /\ Len(stamps) >= 2)
          => (stamps[1] = <<0, 3000>> /\ stamps[2] = <<100, 3000>>)
C1_Witness ==
    /\ wpc = "save" /\ Len(stamps) = frames /\ frames >= 2
    /\ fps = 15 /\ stamps[2] = <<50, 1500>>

\* C2: when a cancelled export run ends, no partially written file is left at the
\* output path.
C2_NoPartialFileAfterCancel ==
    (RunEnded /\ cancel_flag /\ ~write_failed) => file # "partial"

\* C3: when writing the output fails, the worker emits error exactly once, never
\* emits done, and no partially written file is left when the run ends.
C3_FailureEmitsErrorAndCleansUp ==
    (RunEnded /\ write_failed) => (errors = 1 /\ dones = 0 /\ file # "partial")

\* C4: two export runs with the same configuration produce the same grid for
\* the same frame index.
C4_SameGridsInBothRuns ==
    (wpc = "fx" /\ seen.i = i /\ seen.cfg = RunConfig) => g = seen.g

\* C5: the export worker never hands glyph_cache to a render: the cache argument
\* of every render it performs is None.
C5_WorkerNeverUsesGlyphCache == worker_cache_arg \in {"unset", None}
C5_Witness ==
    /\ wpc = "fx" /\ worker_cache_arg = None /\ glyph_cache # {}
    /\ crt_enabled /\ crt_shake > 0

\* C6: the clock never decreases; a tick with running = true and an image loaded
\* adds (1/base_fps) * (speed_percent/100) > 0, which is speed_percent clock
\* units, dropped preview or not; any other tick leaves it unchanged.
C6_ClockMonotonic ==
    [][/\ t' >= t
       /\ OnTick => IF running /\ base_gray # None
                    THEN t' - t = animation_speed_percent /\ t' > t
                    ELSE t' = t]_vars
C6_Witness == t > 0 /\ skip_frames /\ RunEnded

\* The last min(n, len(s), capacity) samples of s, oldest first.
Latest(s, n) ==
    LET m == Min(Min(n, Len(s)), RingCapacity)
    IN SubSeq(s, Len(s) - m + 1, Len(s))

\* C7: after any sequence of completed writes (blocks of any length, longer than
\* the capacity and wrapping included), read_latest(n) returns, for every n, the
\* last min(n, total written, capacity) samples written, oldest first.
C7_ReadLatestReturnsLastSamples ==
    wr.pc = "idle" =>
        \A n \in 0..(RingCapacity + 2) :
            ReadLatest(buf, write_idx, size, n) = Latest(Written(Len(log)), n)
C7_Witness ==
    /\ wr.pc = "idle" /\ Len(log) = 2
    /\ Len(log[1]) = RingCapacity - 1 /\ Len(log[2]) > RingCapacity /\ write_idx # 0
    /\ rd.pc = "done" /\ rd.req = RingCapacity /\ rd.lo = 2

\* C8: a finished read_latest returned what the same read returns after some
\* number of whole writes, one between the writes completed when it was called
\* and the writes begun when it returned; the array keeps that value while later
\* writes proceed; and while the reader holds the lock no write is under way.
C8_ReadsAreAtomicCopies ==
    /\ rd.pc = "done" =>
          \E k \in rd.lo..rd.hi : ArrayValue(rd.res) = Latest(Written(k), rd.req)
    /\ lock = "reader" => wr.pc \in {"idle", "acquire"}
    /\ lock = "writer" => rd.pc \in {"idle", "acquire", "done"}
C8_Witness ==
    /\ rd.pc = "done" /\ rd.req >= 2 /\ rd.hi > rd.lo
    /\ wr.pc = "copy2" /\ Len(log) > rd.hi
    /\ ArrayValue(rd.res) # Latest(Written(Len(log)), rd.req)

\* C9: process does not raise on k < window samples: it analyses (window - k)
\* zeros followed by the k samples, and for k = 0 it returns six zeros.
C9_ProcessPadsShortInput ==
    (call.op = "process" /\ call.pc # "called" /\ Len(call.mono) < AnalyzerWin) =>
        /\ ~call.raised
        /\ call.buf = Zeros(AnalyzerWin - Len(call.mono)) \o call.mono
        /\ (call.pc = "returned" /\ call.mono = <<>>) => call.bands = Zeros(6)
C9_ShortInputPadded ==
    /\ call.op = "process" /\ call.pc = "returned"
    /\ Len(call.mono) = 2 /\ call.buf = Zeros(AnalyzerWin - 2) \o call.mono

DeformOps == {"apply_waves_time", "render_morph", "render_audio", "render_contourswim"}
InUnit(grid) == \A cell \in Cells : grid[cell] >= 0 /\ grid[cell] <= Scale

C11_ZeroSpeedsIgnoreTime ==
    (call.op = "waves_shifted" /\ call.pc = "returned"
        /\ call.params.speed_x = 0 /\ call.params.speed_y = 0)
      => call.out_shifted = call.out
C11_StillWhenFlat ==
    /\ call.op = "waves_shifted" /\ call.pc = "returned"
    /\ call.params.amplitude = 0 /\ call.out_shifted = call.out

\* the blend (1 - f) * base + f * target, f = 0.5 + 0.5 * sin(0.8 t), kept in [0,1]
BlendFactor(tt) == 50 + Mul(50, Sin(Radians(Mul(tt, 80))))
ClampedBlend(base, target, tt) ==
    [cell \in Cells |->
        Max(0, Min(Scale, Mul(Scale - BlendFactor(tt), base[cell])
                          + Mul(BlendFactor(tt), target[cell])))]

\* C12: with no target, or a target of another shape, render_morph returns what
\* apply_waves_time returns for the same base, t and params; only with a target
\* of the base's shape does it return the clamped blend.
C12_MorphFallsBackToWaves ==
    (call.op = "render_morph" /\ call.pc = "returned") =>
        IF ~call.target.given \/ call.target.shape # GridShape
        THEN call.out = apply_waves_time(call.base, call.t, call.params)
        ELSE call.out = ClampedBlend(call.base, call.target.data, call.t)
C12_Witness ==
    /\ call.op = "render_morph" /\ call.pc = "returned"
    /\ call.target.given /\ call.target.shape # GridShape
    /\ call.out = apply_waves_time(call.base, call.t, call.params)
    /\ call.out # call.base
    /\ call.out # ClampedBlend(call.base, call.target.data, call.t)

Between(x, a, b) == (a <= x /\ x <= b) \/ (b <= x /\ x <= a)

\* C13: for luminance k/4 the color is stop k exactly; for every luminance in
\* [0,1] the segment index is in 0..3 and each channel lies between the
\* channels of the segment's two stops.
C13_ColorAtStopsAndBetween ==
    (call.op = "cell_color" /\ call.pc = "returned") =>
        /\ \A k \in 0..4 : call.lum * 4 = k * LumDen => call.color = call.stops[k + 1]
        /\ call.seg \in 0..3
        /\ \A ch \in 1..3 :
              Between(call.color[ch], call.stops[call.seg + 1][ch],
                      call.stops[call.seg + 2][ch])
C13_Witness ==
    /\ call.op = "cell_color" /\ call.pc = "returned"
    /\ call.lum = LumDen /\ call.seg = 3
    /\ call.stops[4] # call.stops[5] /\ call.color = call.stops[5]

EdgeHist == call.hist
Before(n) == SubSeq(EdgeHist, 1, n - 1)
\* the entry of the pair passed in call m is dropped by some call after m and before n
DroppedBetween(m, n) == \E e \in (m + 1)..(n - 1) : EdgeHist[m].args \in EdgeHist[e].evicted

\* C14: two calls with the same (shape key, content bytes), the entry not evicted
\* in between, return the same result object and compute once; a call with a
\* pair not passed before computes, and a result is never one stored for other
\* arguments.
C14_SameArgsHitOtherContentRecomputes ==
    call.op = "get_edge_data" =>
        \A n \in 1..Len(EdgeHist) :
            /\ EdgeHist[n].ret.of = EdgeHist[n].args
            /\ EdgeHist[n].args \notin UsedArgs(Before(n)) => EdgeHist[n].computed
            /\ \A m \in 1..(n - 1) :
                  (EdgeHist[m].args = EdgeHist[n].args /\ ~DroppedBetween(m, n)) =>
                      (EdgeHist[n].ret = EdgeHist[m].ret /\ ~EdgeHist[n].computed)
C14_Witness ==
    /\ call.op = "get_edge_data"
    /\ \E n \in 1..Len(EdgeHist) : \E m \in 1..(n - 1) :
          /\ EdgeHist[m].args = EdgeHist[n].args /\ ~EdgeHist[n].computed
          /\ EdgeHist[n].ret = EdgeHist[m].ret
          /\ \E e \in (m + 1)..(n - 1) :
                /\ EdgeHist[e].args[1] = EdgeHist[n].args[1]
                /\ EdgeHist[e].args # EdgeHist[n].args
                /\ EdgeHist[e].computed /\ EdgeHist[e].ret # EdgeHist[m].ret

\* the call of h that last passed args, and the pairs passed by h that at most
\* n - 1 other pairs were passed after
LastUse(args, h) == LET uses == {n \in 1..Len(h) : h[n].args = args} IN CHOOSE n \in uses : \A k \in uses : k <= n
MostRecent(h, n) == UNION {{a \in DOMAIN last : Cardinality({b \in DOMAIN last : last[b] > last[a]}) < n} : last \in {[a \in UsedArgs(h) |-> LastUse(a, h)]}}
\* the last call made, and the calls before it
LastCall == EdgeHist[Len(EdgeHist)]
Earlier == Before(Len(EdgeHist))
CachedArgs == {call.cache[k].args : k \in 1..Len(call.cache)}

\* C19: the cache never holds more than 16 entries; an insertion into a full
\* cache evicts the least recently used entry; a call with one of the 16 most
\* recently used distinct argument pairs is a hit.  Stated of the last call made:
\* every call of a run is the last call of a reachable state.
C19_LruBoundedBySixteen ==
    call.op = "get_edge_data" =>
        /\ Len(call.cache) <= 16
        /\ CachedArgs = MostRecent(EdgeHist, 16)
        /\ Len(EdgeHist) > 0 =>
              \A recent \in {MostRecent(Earlier, 16)} :
                  /\ LastCall.args \in recent => ~LastCall.computed
                  /\ \A a \in LastCall.evicted :
                        /\ Cardinality(recent) = 16
                        /\ a \in recent
                        /\ \A b \in recent : LastUse(a, Earlier) <= LastUse(b, Earlier)
C19_Witness ==
    /\ call.op = "get_edge_data" /\ Len(EdgeHist) = 19
    /\ EdgeHist[18].evicted = {EdgeArgs(2)}
    /\ EdgeHist[17].args = EdgeArgs(1) /\ ~EdgeHist[17].computed
    /\ EdgeHist[19].args = EdgeArgs(1) /\ ~EdgeHist[19].computed
    /\ Len(call.cache) = 16

\* the handlers that change the font, the cell size, the symbol ramp or a palette stop
GlyphChangingOps ==
    {"on_font_changed", "on_anim_font_px_changed", "on_ramp_changed", "on_custom_symbols_changed",
     "on_hex_change", "pick", "randomize_palette", "import_palette"}

\* C15: after a handler that changes the font, the cell size, the ramp or a
\* palette stop, glyph_cache is empty when the next render (the handler's own
\* update_preview) starts to use it.
C15_ChangeClearsGlyphCache ==
    (call.op = "window" /\ call.last \in GlyphChangingOps /\ call.rendered) => call.empty_at_render
C15_Witness ==
    /\ call.op = "window" /\ call.last = "on_font_changed" /\ call.rendered
    /\ call.empty_at_render /\ call.handled = 3

\* the characters of a ramp
CharsOf(ramp) == {ramp[k] : k \in 1..Len(ramp)}

\* C16: every bitmap a cached render pastes is keyed by a character of the ramp
\* in effect and was rasterized with the font and the cell size in effect for
\* that render; in particular none is keyed by a character that only an
\* earlier ramp had.
C16_PastedGlyphsMatchConfiguration ==
    (call.op = "window" /\ call.rendered) =>
        \A e \in call.pasted :
            /\ e.ch \in CharsOf(RampInEffect(call))
            /\ e.font = call.font_pil
            /\ e.cell_w = call.cell_w /\ e.cell_h = call.cell_h
C16_Witness ==
    /\ call.op = "window" /\ call.last = "on_custom_symbols_changed" /\ call.rendered
    /\ call.handled = 3 /\ call.custom_ramp = <<"X", "Y">>
    /\ call.pasted # {} /\ \A e \in call.pasted : e.ch \in {"X", "Y"}
    /\ call.font_pil = LoadFont("Serif", 16)

\* C17: the mode is one of the five values, and a mode switch through
\* on_mode_changed starts its render from an empty glyph cache and with no
\* analyzer smoothing state left by the previous mode.
C17_ModeSwitchResetsState ==
    /\ mode \in {"waves", "morphing", "audio", "audioreactive_alt", "contourswim"}
    /\ (call.op = "window" /\ call.last = "on_mode_changed" /\ call.rendered) =>
          /\ call.empty_at_render
          /\ (call.mode_before # mode /\ AudioMode(mode)) => call.an_before \in {"absent", "zero"}
C17_CacheClearedOnSwitch ==
    /\ call.op = "window" /\ call.last = "on_mode_changed" /\ call.rendered
    /\ call.mode_before = "waves" /\ mode = "morphing"
    /\ call.empty_at_render /\ call.handled = 3 /\ glyph_cache # {}

\* how far a band moved in a step, and how far it was from the new value
Moved(s, k) == Abs(s.after[k] - s.before[k])
Gap(s, k) == Abs(s.norm[k] - s.before[k])

\* C18: a band whose new value is above the smoothed value (attack) moves a
\* larger fraction of the gap than a band whose new value is below it
\* (release), and each call starts from the smoothed values the call before left.
C18_AttackFasterThanRelease ==
    call.op = "smoothing" =>
        /\ \A n \in 2..Len(call.steps) : call.steps[n].before = call.steps[n - 1].after
        /\ \A n, m \in 1..Len(call.steps) : \A k, l \in 1..6 :
              (call.steps[n].norm[k] > call.steps[n].before[k]
                 /\ call.steps[m].norm[l] < call.steps[m].before[l]) =>
                  Moved(call.steps[n], k) * Gap(call.steps[m], l)
                      > Moved(call.steps[m], l) * Gap(call.steps[n], k)
C18_SmoothedPersists ==
    /\ call.op = "smoothing" /\ Len(call.steps) = 2
    /\ call.steps[2].before = call.steps[1].after
    /\ call.steps[2].after[1] # Smooth(call.steps[2].norm[1], 0)
    /\ call.smoothed = call.steps[2].after

WithinIntensity(r) ==
    r.shaken => /\ Abs(r.x) <= MaxOffset(r.shake)
                /\ Abs(r.y) <= MaxOffset(r.shake)
C21_AppliedShakeWithinIntensity ==
    WithinIntensity(fxlog.preview) /\ WithinIntensity(fxlog.export)
C21_ShakeDrawnAtIntensity ==
    /\ crt_enabled /\ crt_shake = 2
    /\ fxlog.preview = Shaken(crt_shake_offset_x, crt_shake_offset_y, 2)
    /\ crt_shake_offset_x = 1 /\ crt_shake_offset_y = -1

C22_HysteresisWitness ==
    /\ call.op = "on_tick" /\ call.shown /\ call.rt = 40
    /\ call.skip_before /\ call.skip_after

\* C23: invalid input is clamped or rejected with the prior valid value restored: a
\* stepper's value is within [minimum, maximum] after any increase, decrease,
\* setValue and text edit; an empty or non-numeric edit leaves the value unchanged
\* and restores the displayed text to it; a malformed hex color leaves the color
\* stop unchanged and the field then shows the prior valid value.
C23_StepperClamped ==
    (call.op = "input" /\ call.last # "init") =>
        /\ call.value \in call.minimum..call.maximum
        /\ (call.last = "_on_text_edited" /\ ParseInt(call.typed) = {}) =>
              (call.value = call.before /\ call.display = Str(call.value))
C23_MalformedHexRejected ==
    (call.op = "input" /\ call.last = "on_hex_change" /\ ParseHex(call.hex_field) = {}) =>
        call.stop = call.stop_before
C23_InvalidInputRestored ==
    /\ C23_StepperClamped
    /\ C23_MalformedHexRejected
    /\ (call.op = "input" /\ call.last = "on_hex_change") => call.hex_field = call.hex_valid
C23_JunkEditRestored ==
    /\ call.op = "input" /\ call.last = "_on_text_edited" /\ call.typed.kind = "junk"
    /\ call.value = 3 /\ call.display = Str(3) /\ call.before = 3

\* C24: every transform returns a new grid and leaves its input untouched: the grid
\* a render call returns is a different object from the base grid, for every
\* transform and mode, and the base grid holds after the call what it held before.
C24_TransformReturnsNewGrid ==
    (call.op = "transform" /\ call.pc = "returned") =>
        /\ call.ret.id # call.base.id
        /\ call.base.data = call.held
C24_WavesReturnNewGrid ==
    /\ call.op = "transform" /\ call.pc = "returned" /\ call.fn = "apply_waves_time"
    /\ call.ret.id = "result" /\ call.ret.data # call.base.data
    /\ call.base = GridObject("base_gray", call.held)

\* C25: every export session that is started eventually ends: whether the worker
\* completes, fails or is cancelled, the progress dialog is closed and `running` is
\* back at the value it had before the export.
C25_ExportEventuallyEnds ==
    (loader = "open") ~> (loader = "closed" /\ running = was_running)
C25_CancelledRunEndsSilently ==
    /\ wpc = "finished" /\ cancel_flag /\ signal = "none"
    /\ errors = 0 /\ dones = 0 /\ loader = "open" /\ was_running /\ ~running

\* C26: the shake pair applied to exported frame i is the pair the worker's own
\* update_shake made for frame i: between the two no other thread writes the
\* offsets, and x and y never come from two regenerations.
C26_ExportAppliesOwnShake ==
    (wpc = "loop" /\ fxlog.export.shaken) => fxlog.export = fxlog.gen
C26_OwnShakeApplied ==
    /\ wpc = "loop" /\ i = 1 /\ fxlog.export.shaken
    /\ fxlog.export = fxlog.gen /\ fxlog.gen.x = 1 /\ fxlog.gen.y = -1

\* C28: the play/pause button is the source of truth for `running`: after every
\* click `running` equals the button's checked state and the click has flipped
\* `running`, also where `running` was set by an image load or an export.
C28_ClickSetsRunningToChecked ==
    [][play_checked' # play_checked => (running' = play_checked' /\ running' # running)]_vars
C28_RunningSetByLoad ==
    running /\ ~play_checked /\ base_gray # None /\ loader = "closed"

\* C27: for every f in 1..300, after the FPS stepper was set to f and
\* on_export_fps_changed and _set_animation_speed have run, the stepper still
\* holds f.
C27_FpsRoundTrip ==
    (call.op = "on_export_fps_changed" /\ call.pc = "returned") => call.stepper = call.f
C27_ThirtyKept ==
    /\ call.op = "on_export_fps_changed" /\ call.pc = "returned"
    /\ call.f = 30 /\ call.percent = 100 /\ call.stepper = 30

\* C29: turning accurate preview on and then off restores the preview tier that
\* was active before: if use_gpu_preview was on when accurate preview was turned
\* on it is on again, so an enabled CRT effect is still applied by a tier.
C29_AccurateOffRestoresTier ==
    [][(accurate_preview /\ ~accurate_preview') =>
          /\ use_gpu_preview' = fxlog.gpu_before
          /\ (fxlog.gpu_before /\ crt_enabled /\ base_gray # None) => fxlog'.tier # "none"]_vars
C29_AccurateTierActive ==
    /\ accurate_preview /\ ~use_gpu_preview /\ fxlog.gpu_before
    /\ crt_enabled /\ base_gray # None /\ fxlog.tier = "accurate"

\* C30: whenever a morph target is loaded its shape equals the base grid's shape,
\* after any morph-target loads, image loads, pattern generations, column/row and
\* font changes; so morph mode with a loaded target never renders the Waves
\* fallback.
C30_TargetShapeMatchesBase ==
    (call.op = "morph" /\ call.morph_target.given /\ call.base.given) =>
        /\ call.morph_target.shape = call.base.shape
        /\ ~MorphFallsBack(call.base, call.morph_target)
C30_TargetLoadedOnBase ==
    /\ call.op = "morph" /\ call.last = "on_load_morph_target"
    /\ call.base = ArrayOf(<<10, 16>>) /\ call.morph_target = ArrayOf(<<10, 16>>)

====
